---- MODULE Spec2Model ----
(***************************************************************************)
(* State-machine model of USB-Screen: the headless frame loop (main.rs),   *)
(* the USB transport and its framing (usb_screen.rs), the editor's device  *)
(* binding and render timer (editor.rs) and the WiFi worker                *)
(* (wifi_screen.rs).                                                       *)
(*                                                                         *)
(* Conventions: Option<T> is a sequence of length 0 (None) or 1 (Some);    *)
(* an Instant is kept as the number of ms elapsed since it was taken;      *)
(* a u64 constant is kept as four 16-bit limbs, most significant first.    *)
(***************************************************************************)
EXTENDS Integers, Sequences, FiniteSets, TLC

VARIABLES
    mode,            \* which part runs: "headless", "editor", or one part on its own
    attached,        \* environment: the USB screens plugged in right now
    render,          \* the ScreenRender document: width, height, rotate_degree, fps
    usb_screen,      \* main.rs open_usb_screen: Option<UsbScreen> (its UsbScreenInfo)
    last_draw_time,  \* main.rs open_usb_screen: ms elapsed since last_draw_time
    sent,            \* history: the last call of UsbScreen::draw_rgb_image
    sinceDispatch,   \* history: ms since the last frame dispatch (-1: none yet)
    dispatchGap,     \* history: <<ms since the dispatch before, fps>> at the last dispatch
    hdr_in,          \* pure: <<width, height, x, y>> given to draw_rgb565
    hdr_out,         \* pure: the buffers draw_rgb565 / draw_rgb565_serial built
    ident_in,        \* pure: a screen's transport and the identity string it reports
    ident_out,       \* pure: Option of what discovery made of ident_in
    bar_in,          \* pure: a text widget about to be drawn as a progress bar
    bar_out,         \* pure: Option of the rectangle draw filled for bar_in
    px_in,           \* pure: the bytes of an RGB888 image
    px_out,          \* pure: Option of the bytes rgb888_to_rgb565_be made of px_in
    script_widget,   \* widgets.rs: a TextWidget with a custom command (custom_script_data, text)
    commands,        \* widgets.rs execute_user_command: the threads spawned, by phase
    probe_in,        \* usb_screen.rs find_usb_serial_device: the ports and the exclude list
    probe_out,       \* usb_screen.rs find_usb_serial_device: Option of its result and port use
    weather_task,    \* monitor.rs start_refresh_task: the clock, the watched city, the store
    image_widget,    \* widgets.rs ImageWidget: colour, type, frames and frame index
    image_drawn,     \* history: the last ImageWidget::draw, the widget before and the frame shown
    icon_widget,     \* widgets.rs TextWidget of type weather with tag1 "6": text, last draw
    icon_weather,    \* monitor.rs weather_info: Option of the img field of the report
    resize_in,       \* utils.rs test_resize_image: the image size and the maximum
    resize_out,      \* utils.rs test_resize_image: Option of the size returned
    box_widget,      \* editor.rs active_widget(): its kind, rect and explicit size
    box_hist,        \* history: where it was inserted, the draws since, the last operation
    ips,             \* environment: the addresses a user may enter
    faults,          \* environment: which operation of a frame may fail (0: none)
    sizes,           \* environment: the compressed lengths a frame may have
    chan,            \* wifi_screen.rs CONFIG: the bounded(1) channel's buffer
    status,          \* wifi_screen.rs CONFIG: StatusInfo (ip, status)
    socket,          \* wifi_screen.rs start: Option<WebSocket> (the ip it is open to)
    screen_ip,       \* wifi_screen.rs start: screen_ip ("" when empty)
    display_config,  \* wifi_screen.rs start: Option<DisplayConfig> (the ip it came from)
    connected,       \* wifi_screen.rs start: connected
    reconnects,      \* wifi_screen.rs start: ips of the spawned threads still to send Connect
    lastWork,        \* history: the message the worker processed last, and how it went
    hungUp,          \* history: the worker handled a Disconnect and no client sent a Connect since
    SCREEN,          \* editor.rs SCREEN: Option<CurrentScreen>
    ALL_SCREENS,     \* editor.rs ALL_SCREENS: the last discovery result
    devices,         \* editor.rs CanvasEditorContext.devices
    device_name,     \* editor.rs: the device-name property of the window
    pendingOpen,     \* editor.rs update_device_list: the spawned thread's device
    last_frame_time, \* editor.rs: ms elapsed since last_frame_time (-1: None)
    pendingDraws,    \* editor.rs: draw_image_to_usb_screen tasks spawned, not yet run
    drawBlocked,     \* editor.rs: a draw task waits in send_message, holding SCREEN
    lastBind,        \* history: the last run of the thread update_device_list spawns
    picked,          \* history: Option of the device on_change_device bound last, and
                     \* whether an update_device_list cycle began since
    families,        \* environment: the metric families the document watches
    SYSTEM_INFO,     \* monitor.rs SYSTEM_INFO: the SystemInfo inside the RwLock
    sysLock,         \* monitor.rs SYSTEM_INFO: the family writing it, or "free"
    collectors,      \* monitor.rs: per family, threads spawned and their state
    text_widget,     \* widgets.rs: a TextWidget (type_name, text)
    lastDraw,        \* history: the last TextWidget::draw, and what it got
    screen,          \* screen.rs: the ScreenRender the editor or the loop holds
    file,            \* environment: Option of the decompressed file about to be loaded
    lastLoad,        \* history: the last load, its result, the document before, the file
    uuids,           \* screen.rs add_widget: how many Uuid::new_v4 were drawn
    painted          \* screen.rs canvas: the ids of the widgets drawn since the last clear

usbVars   == <<attached, usb_screen, sent>>
paceVars  == <<last_draw_time, sinceDispatch, dispatchGap>>
scriptVars == <<script_widget, commands>>
probeVars == <<probe_in, probe_out>>
imageVars == <<image_widget, image_drawn>>
boxVars   == <<box_widget, box_hist>>
iconVars  == <<icon_widget, icon_weather>>
resizeVars == <<resize_in, resize_out>>
unitVars  == <<scriptVars, probeVars, weather_task, imageVars, boxVars, iconVars,
               resizeVars>>
pureVars  == <<hdr_in, hdr_out, ident_in, ident_out, bar_in, bar_out, px_in, px_out, unitVars>>
wifiVars  == <<chan, status, socket, screen_ip, display_config, connected,
               reconnects, lastWork, hungUp>>
editVars  == <<SCREEN, ALL_SCREENS, devices, device_name, pendingOpen,
               last_frame_time, pendingDraws, drawBlocked, lastBind, picked>>
monVars   == <<families, SYSTEM_INFO, sysLock, collectors, text_widget, lastDraw>>
docVars   == <<screen, file, lastLoad, uuids, painted>>
envVars   == <<mode, ips, faults, sizes>>
vars == <<envVars, render, usbVars, paceVars, pureVars, wifiVars, editVars, monVars,
          docVars>>

\* what an operation on a single widget or a single function call leaves alone
restVars == <<envVars, docVars, monVars, render, usbVars, paceVars, hdr_in, hdr_out,
              ident_in, ident_out, bar_in, bar_out, px_in, px_out, wifiVars, editVars>>
otherThanScript == <<probeVars, weather_task, imageVars, boxVars, iconVars,
    resizeVars>>
otherThanProbe == <<scriptVars, weather_task, imageVars, boxVars, iconVars,
    resizeVars>>
otherThanWeather == <<scriptVars, probeVars, imageVars, boxVars, iconVars,
    resizeVars>>
otherThanImage == <<scriptVars, probeVars, weather_task, boxVars, iconVars,
    resizeVars>>
otherThanBox == <<scriptVars, probeVars, weather_task, imageVars, iconVars,
    resizeVars>>
otherThanIcon == <<scriptVars, probeVars, weather_task, imageVars, boxVars,
    resizeVars>>
otherThanResize == <<scriptVars, probeVars, weather_task, imageVars, boxVars, iconVars>>

None == <<>>
Some(x) == <<x>>
Min(a, b) == IF a < b THEN a ELSE b

(***************************************************************************)
(* Bounds of the model                                                     *)
(***************************************************************************)
\* elapsed times are kept exactly up to TimeCap ms and saturate there
TimeCap == 120
\* a sleep or a timer period may overrun by 0..MaxJitter ms
MaxJitter == 0
\* reconnect threads that may wait to send their Connect at the same time
MaxReconnects == 1
\* draw tasks that may be spawned and not yet run
MaxPendingDraws == 1

(***************************************************************************)
(* usb_screen.rs: devices                                                  *)
(***************************************************************************)
\* a USB-raw screen whose serial number is USBSCR160X128;... and a serial
\* screen answering USBSCR320X240;... (label as built by find_all_device)
RawDev    == [label |-> <<"USB Screen", "1">>, address |-> "1",
              width |-> 160, height |-> 128]
SerialDev == [label |-> <<"USB", "/dev/ttyACM0">>, address |-> "/dev/ttyACM0",
              width |-> 320, height |-> 240]
Devices == {RawDev, SerialDev}

\* UsbScreen::open: label.contains("Screen") selects the raw backend
UsbScreen_open(info) ==
    IF info.label[1] = "USB Screen" THEN "USBRaw" ELSE "USBSerial"

\* find_all_device: raw devices first, then the serial ports
find_all_device(plugged) ==
    (IF RawDev \in plugged THEN <<RawDev>> ELSE <<>>)
        \o (IF SerialDev \in plugged THEN <<SerialDev>> ELSE <<>>)

\* find_and_open_a_screen: the first device of the list that opens
find_and_open_a_screen(plugged) ==
    LET found == find_all_device(plugged)
    IN  IF found = <<>> THEN None ELSE Some(found[1])

(***************************************************************************)
(* usb_screen.rs: the screen size in the identity string                   *)
(***************************************************************************)
DigitChars == <<"0", "1", "2", "3", "4", "5", "6", "7", "8", "9">>
IsDigit(c) == \E i \in 1..10 : DigitChars[i] = c
DigitVal(c) == (CHOOSE i \in 1..10 : DigitChars[i] = c) - 1

\* the decimal number a screen puts in its identity string
RECURSIVE Decimal(_)
Decimal(n) ==
    IF n < 10 THEN <<DigitChars[n + 1]>>
    ELSE Append(Decimal(n \div 10), DigitChars[(n % 10) + 1])

USBSCR == <<"U", "S", "B", "S", "C", "R">>

\* USBSCR{width}X{height};...
Identity(width, height, sep, tail) ==
    USBSCR \o Decimal(width) \o <<sep>> \o Decimal(height) \o <<";">> \o tail

\* str::starts_with
starts_with(s, prefix) ==
    Len(s) >= Len(prefix) /\ SubSeq(s, 1, Len(prefix)) = prefix

\* str::find: the byte index of the first occurrence
find(s, c) ==
    LET hits == {i \in 1..Len(s) : s[i] = c}
    IN  IF hits = {} THEN None
        ELSE Some((CHOOSE i \in hits : \A j \in hits : i <= j) - 1)

\* str::replace of one character
replace(s, from, to) == [i \in 1..Len(s) |-> IF s[i] = from THEN to ELSE s[i]]

\* str::split: the parts between the occurrences of c
RECURSIVE split(_, _)
split(s, c) ==
    LET at == find(s, c)
    IN  IF at = None THEN <<s>>
        ELSE <<SubSeq(s, 1, at[1])>> \o split(SubSeq(s, at[1] + 2, Len(s)), c)

\* the digits of str::parse::<u16>: an error on a non-digit or on overflow
RECURSIVE parse_digits(_, _)
parse_digits(s, acc) ==
    IF s = <<>> THEN Some(acc)
    ELSE IF ~IsDigit(Head(s)) THEN None
    ELSE LET v == acc * 10 + DigitVal(Head(s))
         IN  IF v > 65535 THEN None ELSE parse_digits(Tail(s), v)

\* str::parse::<u16>: an optional '+', then at least one digit
parse_u16(s) ==
    LET body == IF s # <<>> /\ Head(s) = "+" THEN Tail(s) ELSE s
    IN  IF body = <<>> THEN None ELSE parse_digits(body, 0)

unwrap_or(o, default) == IF o = None THEN default ELSE o[1]

\* lines 105-109 / 190-194: serial_number[6..find(";").unwrap_or(13)],
\* X replaced by x, split at x, each part parsed or defaulted
screen_size(serial_number) ==
    LET end == unwrap_or(find(serial_number, ";"), 13)
    IN  IF end < 6 \/ end > Len(serial_number)
        THEN [res |-> "panic", width |-> 0, height |-> 0]
        ELSE LET arr == split(replace(SubSeq(serial_number, 7, end), "X", "x"), "x")
             IN  [res |-> "ok",
                  width |-> unwrap_or(parse_u16(arr[1]), 160),
                  height |-> IF Len(arr) >= 2 THEN unwrap_or(parse_u16(arr[2]), 128)
                             ELSE 128]

NotReported == [res |-> "none", width |-> 0, height |-> 0]

\* find_all_device, a USB-raw device: the size from its serial number
find_usb_raw_device(serial_number) ==
    IF starts_with(serial_number, USBSCR) THEN screen_size(serial_number)
    ELSE NotReported

\* the answer to ReadInfo is read into a buffer of 16 zero bytes
SerialBuffer == 16
read(answer) ==
    [i \in 1..SerialBuffer |-> IF i <= Len(answer) THEN answer[i] ELSE "NUL"]

\* find_usb_serial_device: the size from the bytes read from the port
find_usb_serial_device(answer) ==
    LET serial_number == read(answer)
    IN  IF starts_with(serial_number, USBSCR) THEN screen_size(serial_number)
        ELSE NotReported

\* the sizes, separators and remainders of the identity strings tried
IdentSizes == {0, 7, 128, 160, 240, 320, 1024, 10000, 65535}
IdentSeps  == {"X", "x"}
IdentTails == {<<>>, <<"0", "1">>}

\* discovery meets a screen that reports Identity(...)
find_device ==
    /\ mode = "identity"
    /\ ident_out = None
    /\ LET id == Identity(ident_in.width, ident_in.height, ident_in.sep, ident_in.tail)
       IN  ident_out' = Some(IF ident_in.kind = "raw" THEN find_usb_raw_device(id)
                             ELSE find_usb_serial_device(id))
    /\ UNCHANGED <<envVars, docVars, monVars, render, usbVars, paceVars, hdr_in, hdr_out,
                   ident_in, wifiVars, editVars>>
    /\ UNCHANGED <<bar_in, bar_out, px_in, px_out, unitVars>>

(***************************************************************************)
(* widgets.rs TextWidget::draw: the progress bar. The arithmetic is f32:   *)
(* a value is sign * m * 2^e with m below 2^24, rounded to nearest, ties   *)
(* to even, after every operation.                                         *)
(***************************************************************************)
RECURSIVE Pow2(_)
Pow2(n) == IF n = 0 THEN 1 ELSE 2 * Pow2(n - 1)

RECURSIVE BitLen(_)
BitLen(x) == IF x = 0 THEN 0 ELSE 1 + BitLen(x \div 2)

F32Zero == [sign |-> 1, m |-> 0, e |-> 0]

\* the f32 nearest to (N / D) * 2^s, for N > 0 and D > 0
f32_round(sign, N, D, s) ==
    LET k0 == 23 - BitLen(N) + BitLen(D)
        num(k) == IF k >= 0 THEN N * Pow2(k) ELSE N
        den(k) == IF k >= 0 THEN D ELSE D * Pow2(-k)
        k == IF num(k0) \div den(k0) < Pow2(23) THEN k0 + 1 ELSE k0
        q == num(k) \div den(k)
        r == num(k) % den(k)
        m == IF 2 * r > den(k) \/ (2 * r = den(k) /\ q % 2 = 1) THEN q + 1 ELSE q
    IN  IF m = Pow2(24) THEN [sign |-> sign, m |-> Pow2(23), e |-> s - k + 1]
        ELSE [sign |-> sign, m |-> m, e |-> s - k]

\* f32 / f32 with an integer divisor (percent / 100.)
f32_div(a, d) == IF a.m = 0 THEN a ELSE f32_round(a.sign, a.m, d, a.e)

\* (i as f32) * f32 for 0 <= i < 2^12: the 36-bit product i * m is kept as
\* A * 2^12 + B and rounded to 24 bits
f32_mul(i, b) ==
    IF i = 0 \/ b.m = 0 THEN F32Zero
    ELSE LET lo == i * (b.m % 4096)
             A == i * (b.m \div 4096) + lo \div 4096
             B == lo % 4096
             s == BitLen(A) - 12
         IN  IF s <= 0 THEN [sign |-> b.sign, m |-> A * 4096 + B, e |-> b.e]
             ELSE LET q == A * Pow2(12 - s) + B \div Pow2(s)
                      r == B % Pow2(s)
                      half == Pow2(s - 1)
                      m == IF r > half \/ (r = half /\ q % 2 = 1) THEN q + 1 ELSE q
                  IN  [sign |-> b.sign, m |-> m, e |-> b.e + s]

\* f32 as i32: towards zero
f32_as_i32(a) ==
    IF a.e >= 0 THEN a.sign * a.m * Pow2(a.e)
    ELSE IF -a.e >= 25 THEN 0
    ELSE a.sign * (a.m \div Pow2(-a.e))

\* str::replace(pat, "")
RECURSIVE remove_all(_, _)
remove_all(s, pat) ==
    IF s = <<>> THEN <<>>
    ELSE IF starts_with(s, pat) THEN remove_all(SubSeq(s, Len(pat) + 1, Len(s)), pat)
    ELSE <<Head(s)>> \o remove_all(Tail(s), pat)

RECURSIVE digits_value(_, _)
digits_value(s, acc) ==
    IF s = <<>> THEN acc ELSE digits_value(Tail(s), acc * 10 + DigitVal(Head(s)))

RECURSIVE Pow10(_)
Pow10(n) == IF n = 0 THEN 1 ELSE 10 * Pow10(n - 1)

\* str::parse::<f32> on the decimal notation: a sign, digits, a point and
\* digits, at least one digit; the nearest f32
parse_f32(s) ==
    LET signed == s # <<>> /\ Head(s) \in {"+", "-"}
        sign == IF signed /\ Head(s) = "-" THEN -1 ELSE 1
        body == IF signed THEN Tail(s) ELSE s
        dot == find(body, ".")
        int == IF dot = None THEN body ELSE SubSeq(body, 1, dot[1])
        frac == IF dot = None THEN <<>> ELSE SubSeq(body, dot[1] + 2, Len(body))
        all == int \o frac
    IN  IF all = <<>> \/ \E i \in 1..Len(all) : ~IsDigit(all[i]) THEN None
        ELSE IF digits_value(all, 0) = 0 THEN Some([sign |-> sign, m |-> 0, e |-> 0])
        ELSE Some(f32_round(sign, digits_value(all, 0), Pow10(Len(frac)), 0))

\* lines 398-403: the text without "%" and "°C" as a number, 0 when it is none
percent_of(text) ==
    unwrap_or(parse_f32(remove_all(remove_all(text, <<"%">>), <<"°", "C">>)), F32Zero)

\* lines 410-413 and 426-429: (extent as f32 * (percent / 100.)) as i32, at least 1
filled(extent, percent) ==
    LET rect == f32_as_i32(f32_mul(extent, f32_div(percent, 100)))
    IN  IF rect <= 0 THEN 1 ELSE rect

\* lines 396-440: the rectangle filled for a progress bar, None for a widget
\* that is drawn as text or as an icon
progress_rect(self) ==
    IF self.type_name # "weather" /\ self.type_name # "uptime" /\ self.tag1 \in {"1", "2"}
    THEN LET percent == percent_of(self.text)
             width == unwrap_or(self.width, self.font_size * 5)
             height == unwrap_or(self.height, self.font_size)
         IN  IF self.tag1 = "1"
             THEN Some([left |-> self.position.left, top |-> self.position.top,
                        width |-> filled(width, percent), height |-> height])
             ELSE LET rect_height == filled(height, percent)
                  IN  Some([left |-> self.position.left,
                            top |-> self.position.top + (height - rect_height),
                            width |-> width, height |-> rect_height])
    ELSE None

\* the percentages drawn, in tenths, and the way the collectors write them
PercentTenths == {0, 1, 5, 9, 10, 70, 210, 290, 420, 425, 500, 530, 590, 655, 840, 990,
                  999, 1000}
PercentText(t, style) ==
    CASE style = "{}%"     -> Decimal(t \div 10) \o <<"%">>
      [] style = "{:.1}%"  -> Decimal(t \div 10) \o <<".">> \o Decimal(t % 10) \o <<"%">>
      [] style = "{:.1}°C" -> Decimal(t \div 10) \o <<".">> \o Decimal(t % 10) \o <<"°", "C">>
BarStyles == {"{}%", "{:.1}%", "{:.1}°C"}
BarExtents == {None, Some(1), Some(75), Some(100), Some(150), Some(300)}
BarFontSizes == {20}
BarTypes == {"cpu_usage", "uptime"}
BarTags == {"0", "1", "2"}

\* a text widget with its text resolved is drawn
draw_progress ==
    /\ mode = "bar"
    /\ bar_out = None
    /\ bar_out' = Some(progress_rect(bar_in))
    /\ UNCHANGED <<envVars, docVars, monVars, render, usbVars, paceVars, hdr_in, hdr_out,
                   ident_in, ident_out, bar_in, px_in, px_out, unitVars, wifiVars, editVars>>

(***************************************************************************)
(* usb_screen.rs: framing                                                  *)
(***************************************************************************)
IMAGE_AA == <<26989, 24935, 25951, 24929>>   \* 7596835243154170209
IMAGE_BB == <<26989, 24935, 25951, 25186>>   \* 7596835243154170466

\* mutant: the low byte first
U16ToLeBytes(v) == <<v % 256, (v \div 256) % 256>>

\* u16::to_be_bytes
U16ToBeBytes(v) == <<(v \div 256) % 256, v % 256>>

\* u64::to_be_bytes on the four limbs
U64ToBeBytes(q) ==
    U16ToBeBytes(q[1]) \o U16ToBeBytes(q[2]) \o U16ToBeBytes(q[3]) \o U16ToBeBytes(q[4])

\* draw_rgb565: img_begin
img_begin(width, height, x, y) ==
    U64ToBeBytes(IMAGE_AA) \o U16ToBeBytes(width) \o U16ToBeBytes(height)
        \o U16ToBeBytes(x) \o U16ToBeBytes(y)

\* draw_rgb565_serial: img_begin
img_begin_serial(width, height, x, y) ==
    U64ToBeBytes(IMAGE_AA) \o U16ToBeBytes(width) \o U16ToBeBytes(height)
        \o U16ToBeBytes(x) \o U16ToBeBytes(y)

\* the closing write of both backends
img_end == U64ToBeBytes(IMAGE_BB)

\* the operations draw_rgb565 issues on the bulk endpoint, in order
RawOps == <<"header", "payload", "end">>
\* the operations draw_rgb565_serial issues on the port, in order
SerialOps == <<"header", "flush", "payload", "flush", "end", "flush">>

\* mutant: an error is logged and the remaining operations go on
IssueOn(ops, fail) ==
    [wire |-> ops, res |-> IF fail = 0 \/ fail > Len(ops) THEN "Ok" ELSE "Err"]

\* a sequence of operations of which the fail-th returns an error (0: none
\* does): every `?` returns at the first error, so the rest is not issued
Issue(ops, fail) ==
    IF fail = 0 \/ fail > Len(ops)
    THEN [wire |-> ops, res |-> "Ok"]
    ELSE [wire |-> SubSeq(ops, 1, fail), res |-> "Err"]

\* draw_rgb565: compresses, then three bulk_out transfers
draw_rgb565(size, fail) == Issue(RawOps, fail)

\* draw_rgb565_serial: compresses, then write + flush three times
draw_rgb565_serial(size, fail) == Issue(SerialOps, fail)

\* mutant: only the width is compared with the screen
DrawUnlessWider(info, img, fail) ==
    LET r == IF UsbScreen_open(info) = "USBRaw"
             THEN Issue(RawOps, fail) ELSE Issue(SerialOps, fail)
    IN  IF img.width <= info.width
        THEN [wire |-> r.wire, failed |-> r.res = "Err", res |-> "Ok"]
        ELSE [wire |-> <<>>, failed |-> FALSE, res |-> "Ok"]

\* UsbScreen::draw_rgb_image: an image larger than the screen is not drawn;
\* the result of the backend is discarded (let _ =) and Ok(()) is returned
UsbScreen_draw_rgb_image(info, img, fail) ==
    LET fits == img.width <= info.width /\ img.height <= info.height
        r == IF UsbScreen_open(info) = "USBRaw"
             THEN draw_rgb565(img.size, fail)
             ELSE draw_rgb565_serial(img.size, fail)
    IN  IF fits
        THEN [wire |-> r.wire, failed |-> r.res = "Err", res |-> "Ok"]
        ELSE [wire |-> <<>>, failed |-> FALSE, res |-> "Ok"]

(***************************************************************************)
(* rgb565.rs                                                               *)
(***************************************************************************)
RECURSIVE BitAnd(_, _)
BitAnd(a, b) ==
    IF a = 0 \/ b = 0 THEN 0
    ELSE 2 * BitAnd(a \div 2, b \div 2) + (IF a % 2 = 1 /\ b % 2 = 1 THEN 1 ELSE 0)

RECURSIVE BitOr(_, _)
BitOr(a, b) ==
    IF a = 0 THEN b
    ELSE IF b = 0 THEN a
    ELSE 2 * BitOr(a \div 2, b \div 2) + (IF a % 2 = 1 \/ b % 2 = 1 THEN 1 ELSE 0)

\* << and >> on a u16
Shl16(a, n) == (a * Pow2(n)) % 65536
Shr(a, n) == a \div Pow2(n)

\* as u8
AsU8(a) == a % 256

R_MASK == 63488   \* 0b1111_1000_0000_0000
G_MASK == 2016    \* 0b0000_0111_1110_0000
B_MASK == 31      \* 0b0000_0000_0001_1111

red(v) == AsU8(Shr(BitAnd(v, R_MASK), 8))
green(v) == AsU8(Shr(BitAnd(v, G_MASK), 3))
blue(v) == AsU8(Shl16(BitAnd(v, B_MASK), 3))

\* a pixel with the channels in the order blue, green, red
from_bgr(r, g, b) ==
    BitOr(BitOr(Shl16(BitAnd(b, 248), 8), Shl16(BitAnd(g, 252), 3)), Shr(r, 3))

\* Rgb565Pixel::from_rgb
from_rgb(r, g, b) ==
    BitOr(BitOr(Shl16(BitAnd(r, 248), 8), Shl16(BitAnd(g, 252), 3)), Shr(b, 3))

\* slice::chunks(3): the last chunk holds what is left
RECURSIVE chunks3(_)
chunks3(img) ==
    IF img = <<>> THEN <<>>
    ELSE IF Len(img) <= 3 THEN <<img>>
    ELSE <<SubSeq(img, 1, 3)>> \o chunks3(SubSeq(img, 4, Len(img)))

\* rgb888_to_rgb565_be: to_be_bytes of every pixel, one after the other
RECURSIVE be_pixels(_)
be_pixels(ps) ==
    IF ps = <<>> THEN <<>>
    ELSE U16ToBeBytes(from_rgb(Head(ps)[1], Head(ps)[2], Head(ps)[3])) \o be_pixels(Tail(ps))

rgb888_to_rgb565_be(img) == be_pixels(chunks3(img))

\* every value of one channel beside the ends and a mid-step value of the others
Channels == 0..255
EdgeChannels == {0, 7, 255}
FirstPixels ==
    {<<r, g, b>> : r \in Channels, g \in EdgeChannels, b \in EdgeChannels}
        \cup {<<r, g, b>> : r \in EdgeChannels, g \in Channels, b \in EdgeChannels}
        \cup {<<r, g, b>> : r \in EdgeChannels, g \in EdgeChannels, b \in Channels}
ImageTail == {<<>>, <<255, 0, 128>>, <<7, 3, 7, 248, 252, 248>>}

\* an RgbImage is converted for the screen
convert_image ==
    /\ mode = "pixel"
    /\ px_out = None
    /\ px_out' = Some(rgb888_to_rgb565_be(px_in))
    /\ UNCHANGED <<envVars, docVars, monVars, render, usbVars, paceVars, hdr_in, hdr_out,
                   ident_in, ident_out, bar_in, bar_out, px_in, unitVars, wifiVars, editVars>>

(***************************************************************************)
(* The rendered frame                                                      *)
(***************************************************************************)
\* documents the frame loop may have loaded: panel size, rotation, fps
Documents ==
    { [width |-> 160, height |-> 128, rotate_degree |-> 0,  fps |-> 10],
      [width |-> 160, height |-> 128, rotate_degree |-> 90, fps |-> 30],
      [width |-> 320, height |-> 240, rotate_degree |-> 0,  fps |-> 12] }

\* lengths lz4_flex::compress_prepend_size may return for a frame: well
\* under 28 KiB, exactly 28 KiB, and 30 KiB
PayloadSizes == {2 * 1024, 28 * 1024, 30 * 1024}

\* main.rs / editor.rs: the canvas converted to RGB and rotated
Frame(doc, size) ==
    IF doc.rotate_degree = 90 \/ doc.rotate_degree = 270
    THEN [width |-> doc.height, height |-> doc.width, size |-> size]
    ELSE [width |-> doc.width, height |-> doc.height, size |-> size]

(***************************************************************************)
(* Frame pacing                                                            *)
(***************************************************************************)
\* mutant: the frame time taken in hundredths of a second
frame_duration_cs(fps) == 100 \div fps

\* (1000./fps) as u128, as i32: truncation of the quotient
frame_duration(fps) == 1000 \div fps

\* the pacing test of both loops: too early for the next frame
TooEarly(elapsed, fps) == elapsed < frame_duration(fps)

Advance(t, ms) == IF t < 0 THEN t ELSE Min(TimeCap, t + ms)

(***************************************************************************)
(* Environment: screens are plugged and unplugged                          *)
(***************************************************************************)
Plug ==
    /\ mode \in {"headless", "editor"}
    /\ \E d \in Devices \ attached : attached' = attached \cup {d}
    /\ UNCHANGED <<envVars, docVars, monVars, render, usb_screen, sent, paceVars, pureVars, wifiVars, editVars>>

Unplug ==
    /\ mode \in {"headless", "editor"}
    /\ \E d \in attached : attached' = attached \ {d}
    /\ UNCHANGED <<envVars, docVars, monVars, render, usb_screen, sent, paceVars, pureVars, wifiVars, editVars>>

(***************************************************************************)
(* main.rs open_usb_screen: one iteration of the loop                      *)
(***************************************************************************)
open_usb_screen ==
    /\ mode = "headless"
    /\ IF TooEarly(last_draw_time, render.fps)
       THEN \* sleep(5); continue
            \E j \in 0..MaxJitter :
                /\ last_draw_time' = Advance(last_draw_time, 5 + j)
                /\ sinceDispatch' = Advance(sinceDispatch, 5 + j)
                /\ UNCHANGED <<usb_screen, sent, dispatchGap>>
       ELSE IF usb_screen = None
       THEN \* sleep(2000); find_and_open_a_screen()
            /\ last_draw_time' = Advance(0, 2000)
            /\ sinceDispatch' = Advance(sinceDispatch, 2000)
            /\ usb_screen' = find_and_open_a_screen(attached)
            /\ UNCHANGED <<sent, dispatchGap>>
       ELSE \E size \in sizes, fail \in faults :
                LET info == usb_screen[1]
                    frame == Frame(render, size)
                    r == UsbScreen_draw_rgb_image(info, frame, fail)
                IN  /\ last_draw_time' = 0
                    /\ dispatchGap' = Some(<<sinceDispatch, render.fps>>)
                    /\ sinceDispatch' = 0
                    /\ sent' = Some([info |-> info, img |-> frame, wire |-> r.wire,
                                     fail |-> fail, failed |-> r.failed, res |-> r.res])
                    /\ usb_screen' = IF r.res = "Err" THEN None ELSE usb_screen
    /\ UNCHANGED <<envVars, docVars, monVars, render, attached, pureVars, wifiVars, editVars>>

(***************************************************************************)
(* wifi_screen.rs: the command channel and the worker thread               *)
(***************************************************************************)
AllIps == {"10.0.0.1", "10.0.0.2"}

\* CONFIG: bounded(1)
ChannelCap == 1

Connect(ip) == [type |-> "Connect", ip |-> ip]
Disconnect  == [type |-> "Disconnect", ip |-> ""]
Image       == [type |-> "Image", ip |-> ""]

\* Sender::send returns once the message is in the buffer: it waits for room
HasRoom == Len(chan) < ChannelCap

\* set_status
set_status(ip, st) == [ip |-> ip, status |-> st]

NoWork == [type |-> "None", ip |-> "", linkOk |-> FALSE, wrote |-> FALSE,
           ret1 |-> FALSE, ret2 |-> FALSE, before |-> "None"]

\* the threads spawned to send Connect(ip) after a delay, per target ip
NoReconnects == [ip \in AllIps \cup {""} |-> 0]
Pending(r) == r["10.0.0.1"] + r["10.0.0.2"] + r[""]
Spawn(r, ip) == [r EXCEPT ![ip] = @ + 1]

\* mutant: a failed connection leaves the status at Connecting
connect_socket_silent(ip, linkOk) ==
    IF linkOk
    THEN [socket |-> Some(ip), status |-> set_status(None, "Connected"), res |-> "Ok"]
    ELSE [socket |-> None, status |-> set_status(Some(ip), "Connecting"), res |-> "Ok"]

\* connect_socket: closes the old socket, then connects; always returns Ok(())
connect_socket(ip, linkOk) ==
    IF linkOk
    THEN [socket |-> Some(ip), status |-> set_status(None, "Connected"), res |-> "Ok"]
    ELSE [socket |-> None, status |-> set_status(None, "ConnectFail"), res |-> "Ok"]

\* the send of an Image counts as failed (ret1, ret2: write and flush succeeded)
SendFailed(ret1, ret2) == ~ret1 /\ ~ret2

\* start: Message::Disconnect
worker_Disconnect ==
    /\ mode \in {"editor", "wifi"}
    /\ chan # <<>> /\ Head(chan).type = "Disconnect"
    /\ chan' = Tail(chan)
    /\ screen_ip' = ""
    /\ status' = [status EXCEPT !.status = "Disconnected"]
    /\ socket' = None
    /\ lastWork' = [NoWork EXCEPT !.type = "Disconnect", !.before = status.status]
    /\ hungUp' = TRUE
    /\ UNCHANGED <<display_config, connected, reconnects>>
    /\ UNCHANGED <<envVars, docVars, monVars, render, usbVars, paceVars, pureVars, editVars>>

\* start: Message::Connect(ip)
worker_Connect ==
    /\ mode \in {"editor", "wifi"}
    /\ chan # <<>> /\ Head(chan).type = "Connect"
    /\ \E cfgOk \in BOOLEAN, linkOk \in BOOLEAN :
        LET ip == Head(chan).ip
            c == connect_socket(ip, linkOk)
        IN  /\ (cfgOk \/ linkOk) => ip # ""
            /\ screen_ip' = ip
            /\ display_config' = IF cfgOk THEN Some(ip) ELSE display_config
            /\ socket' = c.socket
            /\ status' = c.status
            /\ connected' = (c.res = "Ok")
            /\ lastWork' = [NoWork EXCEPT !.type = "Connect", !.ip = ip,
                                          !.linkOk = linkOk, !.before = status.status]
    /\ chan' = Tail(chan)
    /\ UNCHANGED <<reconnects, hungUp>>
    /\ UNCHANGED <<envVars, docVars, monVars, render, usbVars, paceVars, pureVars, editVars>>

\* start: Message::Image(image)
worker_Image ==
    /\ mode \in {"editor", "wifi"}
    /\ chan # <<>> /\ Head(chan).type = "Image"
    /\ chan' = Tail(chan)
    /\ UNCHANGED <<screen_ip, hungUp>>
    /\ \E tryLock \in BOOLEAN, cfgOk \in BOOLEAN, canWrite \in BOOLEAN,
          resizeOk \in BOOLEAN, ret1 \in BOOLEAN, ret2 \in BOOLEAN :
        LET st1 == IF tryLock
                   THEN [status EXCEPT !.status =
                            IF connected THEN "Connected" ELSE "Disconnected"]
                   ELSE status
            cfg1 == IF display_config = None /\ cfgOk
                    THEN Some(screen_ip) ELSE display_config
            conn1 == IF socket # None /\ canWrite THEN TRUE ELSE connected
            work == [NoWork EXCEPT !.type = "Image", !.ip = screen_ip,
                                   !.before = status.status]
        IN  /\ cfgOk => screen_ip # ""
            /\ display_config' = cfg1
            /\ IF cfg1 = None
               THEN \* the geometry fetch failed: sleep 3 s, spawn, continue
                    /\ Pending(reconnects) < MaxReconnects
                    /\ reconnects' = Spawn(reconnects, screen_ip)
                    /\ status' = st1
                    /\ lastWork' = work
                    /\ UNCHANGED <<socket, connected>>
               ELSE IF conn1 /\ socket # None /\ resizeOk
               THEN \* write + flush, then sleep delay_ms
                    /\ connected' = IF SendFailed(ret1, ret2) THEN FALSE ELSE conn1
                    /\ socket' = IF SendFailed(ret1, ret2) THEN None ELSE socket
                    /\ status' = st1
                    /\ lastWork' = [work EXCEPT !.wrote = TRUE, !.ret1 = ret1,
                                                !.ret2 = ret2]
                    /\ UNCHANGED reconnects
               ELSE IF conn1
               THEN \* no socket, or the resize failed: continue
                    /\ connected' = conn1
                    /\ status' = st1
                    /\ lastWork' = work
                    /\ UNCHANGED <<socket, reconnects>>
               ELSE \* not connected: close, report, sleep 3 s, spawn
                    /\ (screen_ip # "") => Pending(reconnects) < MaxReconnects
                    /\ socket' = None
                    /\ status' = set_status(None, "Disconnected")
                    /\ reconnects' = IF screen_ip # ""
                                     THEN Spawn(reconnects, screen_ip) ELSE reconnects
                    /\ connected' = conn1
                    /\ lastWork' = work
    /\ UNCHANGED <<envVars, docVars, monVars, render, usbVars, paceVars, pureVars, editVars>>

\* the thread spawned by the Image handler: send_message(Connect(screen_ip))
reconnect_thread ==
    /\ mode \in {"editor", "wifi"}
    /\ HasRoom
    /\ \E ip \in AllIps \cup {""} :
        /\ reconnects[ip] > 0
        /\ reconnects' = [reconnects EXCEPT ![ip] = @ - 1]
        /\ chan' = Append(chan, Connect(ip))
    /\ UNCHANGED <<status, socket, screen_ip, display_config, connected, lastWork, hungUp>>
    /\ UNCHANGED <<envVars, docVars, monVars, render, usbVars, paceVars, pureVars, editVars>>

\* send_message called by a client of the module, with any message
send_message ==
    /\ mode = "wifi"
    /\ HasRoom
    /\ \E msg \in {Connect(ip) : ip \in ips} \cup {Disconnect, Image} :
        /\ chan' = Append(chan, msg)
        /\ hungUp' = IF msg.type = "Connect" THEN FALSE ELSE hungUp
    /\ UNCHANGED <<status, socket, screen_ip, display_config, connected,
                   reconnects, lastWork>>
    /\ UNCHANGED <<envVars, docVars, monVars, render, usbVars, paceVars, pureVars, editVars>>

(***************************************************************************)
(* editor.rs: device binding, render timer, draw tasks                     *)
(***************************************************************************)
USBScreen(dev) == [kind |-> "USBScreen", info |-> Some(dev), ip |-> ""]
WiFiScreen(ip) == [kind |-> "WiFiScreen", info |-> None, ip |-> ip]

IsWiFi(s) == s # None /\ s[1].kind = "WiFiScreen"
IsUsb(s)  == s # None /\ s[1].kind = "USBScreen"

\* format!("{} {}x{}", dev.label, dev.width, dev.height)
DeviceName(dev) ==
    Append(dev.label, IF dev.width = 160 THEN "160x128" ELSE "320x240")
\* the entry shown when no device was found
NotFound == <<"not found">>

\* device.contains(&dev.label)
Contains(name, label) ==
    Len(name) >= Len(label) /\ SubSeq(name, 1, Len(label)) = label

SetMin(S) == CHOOSE i \in S : \A j \in S : i <= j

\* UsbScreen::open succeeds for a device that is still plugged in
CanOpen(dev) == dev \in attached

\* a thread that keeps whatever USB session is bound
KeepBound(s, dev) ==
    IF IsUsb(s) THEN s
    ELSE IF CanOpen(dev) THEN Some(USBScreen(dev))
    ELSE s

\* lines 214-229 / 1627-1641: keep the session of the same label, else open
OpenUnlessBound(s, dev) ==
    IF IsUsb(s) /\ s[1].info[1].label = dev.label THEN s
    ELSE IF CanOpen(dev) THEN Some(USBScreen(dev))
    ELSE s

\* no run of the connecting thread yet
NoBind == [before |-> None, list |-> <<>>, dev |-> None, opened |-> FALSE,
           after |-> None]

\* the 4 s timer: update_device_list, then the discovery thread it spawns
update_device_list ==
    /\ mode = "editor"
    /\ pendingOpen = None
    /\ devices' = ALL_SCREENS
    /\ LET found == {i \in 1..Len(ALL_SCREENS) : ALL_SCREENS[i].label = device_name}
           dev_index == IF found # {} THEN SetMin(found)
                        ELSE IF Len(ALL_SCREENS) > 0 THEN 1 ELSE 0
       IN  /\ device_name' = IF Len(ALL_SCREENS) = 0 THEN NotFound
                             ELSE IF found = {} THEN DeviceName(ALL_SCREENS[1])
                             ELSE device_name
           /\ pendingOpen' = IF dev_index > 0 THEN Some(ALL_SCREENS[dev_index]) ELSE None
    /\ ALL_SCREENS' = find_all_device(attached)
    /\ picked' = IF picked = None THEN None ELSE Some([picked[1] EXCEPT !.later = TRUE])
    /\ UNCHANGED <<SCREEN, last_frame_time, pendingDraws, drawBlocked, lastBind>>
    /\ UNCHANGED <<envVars, docVars, monVars, render, usbVars, paceVars, pureVars, wifiVars>>

\* the thread update_device_list spawns to connect the current device
update_device_list_thread ==
    /\ mode = "editor"
    /\ pendingOpen # None
    /\ ~drawBlocked
    /\ pendingOpen' = None
    /\ SCREEN' = IF IsWiFi(SCREEN) THEN SCREEN
                 ELSE OpenUnlessBound(SCREEN, pendingOpen[1])
    /\ lastBind' = [before |-> SCREEN, list |-> devices, dev |-> pendingOpen,
                    opened |-> CanOpen(pendingOpen[1]), after |-> SCREEN']
    /\ UNCHANGED <<ALL_SCREENS, devices, device_name, last_frame_time,
                   pendingDraws, drawBlocked, picked>>
    /\ UNCHANGED <<envVars, docVars, monVars, render, usbVars, paceVars, pureVars, wifiVars>>

\* on_change_device: the user picks an entry of the device list
on_change_device ==
    /\ mode = "editor"
    /\ ~drawBlocked
    /\ \E k \in 1..Len(devices) :
        LET device == DeviceName(devices[k])
            dev == devices[SetMin({i \in 1..Len(devices) :
                                      Contains(device, devices[i].label)})]
        IN  /\ IsWiFi(SCREEN) => HasRoom
            /\ chan' = IF IsWiFi(SCREEN) THEN Append(chan, Disconnect) ELSE chan
            /\ SCREEN' = OpenUnlessBound(IF IsWiFi(SCREEN) THEN None ELSE SCREEN, dev)
            /\ picked' = IF SCREEN' = Some(USBScreen(dev))
                         THEN Some([dev |-> dev, later |-> FALSE]) ELSE picked
    /\ UNCHANGED <<ALL_SCREENS, devices, device_name, pendingOpen, lastBind, last_frame_time,
                   pendingDraws, drawBlocked>>
    /\ UNCHANGED <<status, socket, screen_ip, display_config, connected,
                   reconnects, lastWork, hungUp>>
    /\ UNCHANGED <<envVars, docVars, monVars, render, usbVars, paceVars, pureVars>>

\* on_update_device_ip: the address answered the test request
on_update_device_ip ==
    /\ mode = "editor"
    /\ ~drawBlocked
    /\ HasRoom
    /\ \E ip \in ips :
        /\ chan' = Append(chan, Connect(ip))
        /\ SCREEN' = Some(WiFiScreen(ip))
    /\ hungUp' = FALSE
    /\ UNCHANGED <<ALL_SCREENS, devices, device_name, pendingOpen, lastBind, last_frame_time,
                   pendingDraws, drawBlocked, picked>>
    /\ UNCHANGED <<status, socket, screen_ip, display_config, connected,
                   reconnects, lastWork>>
    /\ UNCHANGED <<envVars, docVars, monVars, render, usbVars, paceVars, pureVars>>

\* the refresh rates the editor offers
FpsChoices == {10, 12, 30}

\* on_change_fps: a panel larger than 160x128 gets at most 12 frames
fps_for(width, height, fps) ==
    IF width > 160 /\ height > 128 /\ fps > 12 THEN 12 ELSE fps

\* on_change_fps
on_change_fps ==
    /\ mode = "editor"
    /\ \E f \in FpsChoices :
        render' = [render EXCEPT !.fps = fps_for(render.width, render.height, f)]
    \* setup_monitor: this document has no widgets
    /\ UNCHANGED <<envVars, docVars, monVars, usbVars, paceVars, pureVars, wifiVars, editVars>>

\* the 40 ms timer: render_screen
render_screen ==
    /\ mode = "editor"
    /\ pendingDraws < MaxPendingDraws
    /\ \E j \in 0..MaxJitter :
        LET elapsed == Advance(last_frame_time, 40 + j)
            since == Advance(sinceDispatch, 40 + j)
        IN  IF last_frame_time # -1 /\ TooEarly(elapsed, render.fps)
            THEN /\ last_frame_time' = elapsed
                 /\ sinceDispatch' = since
                 /\ UNCHANGED <<pendingDraws, dispatchGap>>
            ELSE /\ pendingDraws' = pendingDraws + 1
                 /\ last_frame_time' = 0
                 /\ dispatchGap' = Some(<<since, render.fps>>)
                 /\ sinceDispatch' = 0
    /\ UNCHANGED <<SCREEN, ALL_SCREENS, devices, device_name, pendingOpen, lastBind, picked, drawBlocked>>
    /\ UNCHANGED <<envVars, docVars, monVars, render, usbVars, last_draw_time, pureVars, wifiVars>>

\* draw_image_to_usb_screen, with CurrentScreen::draw_rgb_image
draw_image_to_usb_screen ==
    /\ mode = "editor"
    /\ pendingDraws > 0
    /\ ~drawBlocked
    /\ pendingDraws' = pendingDraws - 1
    /\ IF IsUsb(SCREEN)
       THEN \E size \in sizes, fail \in faults :
                LET info == SCREEN[1].info[1]
                    frame == Frame(render, size)
                    r == UsbScreen_draw_rgb_image(info, frame, fail)
                IN  /\ sent' = Some([info |-> info, img |-> frame, wire |-> r.wire,
                                     fail |-> fail, failed |-> r.failed, res |-> r.res])
                    /\ UNCHANGED <<chan, drawBlocked>>
       ELSE IF IsWiFi(SCREEN)
       THEN \* send_message(Message::Image(img))
            /\ chan' = IF HasRoom THEN Append(chan, Image) ELSE chan
            /\ drawBlocked' = ~HasRoom
            /\ UNCHANGED sent
       ELSE UNCHANGED <<chan, drawBlocked, sent>>
    /\ UNCHANGED <<SCREEN, ALL_SCREENS, devices, device_name, pendingOpen, lastBind, picked, last_frame_time>>
    /\ UNCHANGED <<status, socket, screen_ip, display_config, connected,
                   reconnects, lastWork, hungUp>>
    /\ UNCHANGED <<envVars, docVars, monVars, render, attached, usb_screen, paceVars, pureVars>>

\* the draw task's send_message returns once the channel has room
send_message_returns ==
    /\ mode = "editor"
    /\ drawBlocked
    /\ HasRoom
    /\ chan' = Append(chan, Image)
    /\ drawBlocked' = FALSE
    /\ UNCHANGED <<SCREEN, ALL_SCREENS, devices, device_name, pendingOpen, lastBind, picked,
                   last_frame_time, pendingDraws>>
    /\ UNCHANGED <<status, socket, screen_ip, display_config, connected,
                   reconnects, lastWork, hungUp>>
    /\ UNCHANGED <<envVars, docVars, monVars, render, usbVars, paceVars, pureVars>>

(***************************************************************************)
(* monitor.rs: the telemetry store, its collectors; widgets.rs: text       *)
(***************************************************************************)
\* the metric families that have a collector thread of their own
Families == {"disk_speed", "network_speed", "webcam"}

\* pub const EMPTY_STRING
EMPTY_STRING == "N/A"

\* the fields of SystemInfo that belong to a family: its watch flag (for the
\* webcam: webcam_info.is_some()), its thread handle, the value it publishes
WatchField(f) == CASE f = "disk_speed"    -> "watch_disk_speed"
                   [] f = "network_speed" -> "watch_network_speed"
                   [] f = "webcam"        -> "webcam_info"
TaskField(f) == CASE f = "disk_speed"    -> "watch_disk_speed_task"
                  [] f = "network_speed" -> "watch_network_speed_task"
                  [] f = "webcam"        -> "watch_webcam_task"
ValueField(f) == CASE f = "disk_speed"    -> "disk_speed_per_sec"
                   [] f = "network_speed" -> "network_speed_per_sec"
                   [] f = "webcam"        -> "webcam_frame"

\* what a collector measures: read speed, received speed, a camera frame
Readings(f) == CASE f = "disk_speed"    -> {"0.0 MB/s", "1.5 MB/s"}
                 [] f = "network_speed" -> {"0.0KB/s", "1.5MB/s"}
                 [] f = "webcam"        -> {Some("frame")}

\* SystemInfo::new
SystemInfo_new ==
    [watch_memory |-> FALSE, watch_disk |-> FALSE, watch_cpu |-> FALSE,
     watch_cpu_clock_speed |-> FALSE, watch_cpu_temperatures |-> FALSE,
     watch_cpu_power |-> FALSE, watch_cpu_fan |-> FALSE,
     watch_gpu_clock_speed |-> FALSE, watch_gpu_temperatures |-> FALSE,
     watch_gpu_fan |-> FALSE, watch_gpu_load |-> FALSE, watch_process |-> FALSE,
     watch_weather |-> None, watch_net_ip |-> FALSE,
     cpu_usage |-> EMPTY_STRING, cpu_usage_percpu |-> <<>>,
     watch_disk_speed |-> FALSE, watch_network_speed |-> FALSE, webcam_info |-> FALSE,
     watch_disk_speed_task |-> FALSE, watch_network_speed_task |-> FALSE,
     watch_webcam_task |-> FALSE,
     disk_speed_per_sec |-> EMPTY_STRING, network_speed_per_sec |-> EMPTY_STRING,
     webcam_frame |-> None, cpu_temperature_total |-> "0.0", net_ip |-> None]

NoCollector == [spawned |-> 0, state |-> "none", watched |-> FALSE]

\* watch_disk_speed, watch_network_speed, watch_webcam: SYSTEM_INFO.write()
set_watch ==
    /\ mode = "monitor"
    /\ sysLock = "free"
    /\ \E f \in families, v \in BOOLEAN :
        /\ SYSTEM_INFO' = [SYSTEM_INFO EXCEPT ![WatchField(f)] = v]
        /\ collectors' = [collectors EXCEPT ![f].watched = @ \/ v]
    /\ UNCHANGED <<families, sysLock, text_widget, lastDraw>>
    /\ UNCHANGED <<envVars, docVars, render, usbVars, paceVars, pureVars, wifiVars, editVars>>

\* the thread a family's start_..._thread spawns: on a build that is not
\* Windows the disk thread returns at once when the first read of the disk
\* counters fails
Started(f, readOk) ==
    IF f = "disk_speed" /\ ~readOk THEN "ended" ELSE "running"

\* the refresh task starts a thread: try_write succeeded, the flag is on and
\* no handle is stored
spawn_if_none(info, f, got) == info[WatchField(f)] /\ got /\ ~info[TaskField(f)]

\* start_refresh_task: one pass of the loop that reaches the update block;
\* got: the families whose try_write took the lock
start_refresh_task ==
    /\ mode = "monitor"
    /\ sysLock = "free"
    /\ \E got \in SUBSET families, readOk \in BOOLEAN :
        LET spawn == {f \in families : spawn_if_none(SYSTEM_INFO, f, f \in got)}
        IN  /\ SYSTEM_INFO' = [fld \in DOMAIN SYSTEM_INFO |->
                                 IF \E f \in spawn : fld = TaskField(f)
                                 THEN TRUE ELSE SYSTEM_INFO[fld]]
            /\ collectors' = [f \in Families |->
                                 IF f \in spawn
                                 THEN [collectors[f] EXCEPT !.spawned = @ + 1,
                                                            !.state = Started(f, readOk)]
                                 ELSE collectors[f]]
    /\ UNCHANGED <<families, sysLock, text_widget, lastDraw>>
    /\ UNCHANGED <<envVars, docVars, render, usbVars, paceVars, pureVars, wifiVars, editVars>>

\* one pass of a collector's loop: read the flag; off: sleep and continue;
\* on: measure, then try_write. The disk thread unwraps the counters it
\* reads, so a failed read ends the thread.
collector_poll ==
    /\ mode = "monitor"
    /\ sysLock = "free"
    /\ \E f \in families, readOk \in BOOLEAN :
        /\ collectors[f].state = "running"
        /\ IF ~SYSTEM_INFO[WatchField(f)]
           THEN UNCHANGED <<collectors, sysLock>>
           ELSE IF f = "disk_speed" /\ ~readOk
           THEN /\ collectors' = [collectors EXCEPT ![f].state = "ended"]
                /\ UNCHANGED sysLock
           ELSE /\ sysLock' = f
                /\ UNCHANGED collectors
    /\ UNCHANGED <<families, SYSTEM_INFO, text_widget, lastDraw>>
    /\ UNCHANGED <<envVars, docVars, render, usbVars, paceVars, pureVars, wifiVars, editVars>>

\* the closure a collector passes to try_write, and the release of the lock
collector_write ==
    /\ mode = "monitor"
    /\ sysLock \in Families
    /\ \E v \in Readings(sysLock) :
        SYSTEM_INFO' = [SYSTEM_INFO EXCEPT ![ValueField(sysLock)] = v]
    /\ sysLock' = "free"
    /\ UNCHANGED <<families, collectors, text_widget, lastDraw>>
    /\ UNCHANGED <<envVars, docVars, render, usbVars, paceVars, pureVars, wifiVars, editVars>>

\* the widget types of the model: plain text, two metrics a collector
\* publishes, one the draw code wraps with unwrap_or(EMPTY_STRING), one
\* whose accessor maps an Option of the store, one that reads no store,
\* and a type the match does not know
TypeNames == {"text", "received_speed", "disk_read_speed", "cpu_temp.",
              "net_ip", "date", "unknown"}

\* the types whose accessor goes through try_read_ctx
StoreTypes == {"received_speed", "disk_read_speed", "cpu_temp.", "net_ip"}

\* Local::now() as the environment gives it
Dates == {"2024/01/01", "2024/01/02"}

\* TextWidget::new: the default text
TextWidget_new(type_name) == [type_name |-> type_name, text |-> "text"]

NoDraw == [type_name |-> "text", locked |-> FALSE, got |-> None,
           resolved |-> None, before |-> "text"]

\* mutant: a read that takes the store whoever holds the lock
read_ctx(lock, info) == Some(info)

\* try_read_ctx: SYSTEM_INFO.try_read(), None while a writer holds the lock
try_read_ctx(lock, info) == IF lock = "free" THEN Some(info) ELSE None

\* format!("{:.1}°C", ctx.cpu_temperature_total)
FormatCelsius(t) == CASE t = "0.0" -> "0.0 C"

\* disk_speed_per_sec().map(|(r, _w)| r)
disk_speed_per_sec(lock, info) ==
    LET ctx == try_read_ctx(lock, info)
    IN  IF ctx = None THEN None ELSE Some(ctx[1].disk_speed_per_sec)

\* network_speed_per_sec().map(|(r, _t)| r)
network_speed_per_sec(lock, info) ==
    LET ctx == try_read_ctx(lock, info)
    IN  IF ctx = None THEN None ELSE Some(ctx[1].network_speed_per_sec)

cpu_temperature(lock, info) ==
    LET ctx == try_read_ctx(lock, info)
    IN  IF ctx = None THEN None ELSE Some(FormatCelsius(ctx[1].cpu_temperature_total))

\* net_ip_address: try_read_ctx()?.net_ip.as_ref().map(|i| i.query.clone())
net_ip_address(lock, info) ==
    LET ctx == try_read_ctx(lock, info)
    IN  IF ctx = None THEN None ELSE ctx[1].net_ip

\* the match of TextWidget::draw: got is what the monitor accessor
\* returned, resolved what the match arm made of it
Resolve(type_name, lock, info, today) ==
    CASE type_name = "received_speed" ->
            LET g == network_speed_per_sec(lock, info) IN [got |-> g, resolved |-> g]
      [] type_name = "disk_read_speed" ->
            LET g == disk_speed_per_sec(lock, info) IN [got |-> g, resolved |-> g]
      [] type_name = "cpu_temp." ->
            LET g == cpu_temperature(lock, info)
            IN  [got |-> g, resolved |-> Some(IF g = None THEN EMPTY_STRING ELSE g[1])]
      [] type_name = "net_ip" ->
            LET g == net_ip_address(lock, info) IN [got |-> g, resolved |-> g]
      [] type_name = "date" -> [got |-> Some(today), resolved |-> Some(today)]
      [] OTHER -> [got |-> None, resolved |-> None]

\* mutant: the sentinel replaces the text like any other value
TextWidget_text_any(text, resolved) ==
    IF resolved # None THEN resolved[1] ELSE text

\* if self.text != text && text != monitor::EMPTY_STRING { self.text = text }
TextWidget_text(text, resolved) ==
    IF resolved # None /\ text # resolved[1] /\ resolved[1] # EMPTY_STRING
    THEN resolved[1] ELSE text

\* TextWidget::draw of a widget without a custom script
TextWidget_draw ==
    /\ mode = "monitor"
    /\ \E today \in Dates :
        LET r == Resolve(text_widget.type_name, sysLock, SYSTEM_INFO, today)
        IN  /\ text_widget' = [text_widget EXCEPT !.text =
                                  IF text_widget.type_name = "text" THEN @
                                  ELSE TextWidget_text(@, r.resolved)]
            /\ lastDraw' = [type_name |-> text_widget.type_name,
                            locked |-> sysLock # "free",
                            got |-> r.got, resolved |-> r.resolved,
                            before |-> text_widget.text]
    /\ UNCHANGED <<families, SYSTEM_INFO, sysLock, collectors>>
    /\ UNCHANGED <<envVars, docVars, render, usbVars, paceVars, pureVars, wifiVars, editVars>>

(***************************************************************************)
(* screen.rs: the document, saving it as JSON, loading it                  *)
(***************************************************************************)
\* a serde_json value: null, a string, a number, an array, an object
JNull == <<"null">>
JStr(s) == <<"str", s>>
JNum(n) == <<"num", n>>
JArr(a) == <<"arr", a>>
JObj(o) == <<"obj", o>>
\* Option<String> ("str") and Option<i32> ("num") as serde writes them
JOpt(kind, o) == IF o = None THEN JNull ELSE <<kind, o[1]>>

\* the value is of one of the kinds the field's type accepts
Is(j, kinds) == j[1] \in kinds
HasFields(j, required) == j[1] = "obj" /\ required \subseteq DOMAIN j[2]
\* a field of an Option type may be missing: serde reads it as None
Field(o, name) == IF name \in DOMAIN o THEN o[name] ELSE JNull
OptOf(j) == IF j[1] = "null" THEN None ELSE Some(j[2])

\* include_bytes!("../fonts/VonwaonBitmap-16px.ttf")
DEFAULT_FONT == "VonwaonBitmap-16px.ttf"
\* the font name to_json never embeds (the built-in bitmap font)
BuiltinFontName == "FenghuangDianzhen"
\* Font::from_bytes
Font_from_bytes(bytes) == IF bytes = "not a font" THEN None ELSE Some(bytes)

\* CustomScriptStatus::default, the value serde gives the skipped field
CustomScriptStatus_default == [loading |-> FALSE, result |-> ""]

\* derive(Serialize) of Rect, TextWidget (custom_script_data is skipped) and
\* ImageWidget; SaveableWidget is an externally tagged enum
Rect_to_json(r) ==
    JObj([left |-> JNum(r.left), top |-> JNum(r.top),
          right |-> JNum(r.right), bottom |-> JNum(r.bottom)])

TextWidget_to_json(w) ==
    JObj([id |-> JStr(w.id), text |-> JStr(w.text), type_name |-> JStr(w.type_name),
          position |-> Rect_to_json(w.position),
          num_widget_index |-> JNum(w.num_widget_index), num_widget |-> JNum(w.num_widget),
          tag1 |-> JStr(w.tag1), tag2 |-> JStr(w.tag2),
          custom_script |-> JOpt("str", w.custom_script)])

ImageWidget_to_json(w) ==
    JObj([id |-> JStr(w.id), rotation |-> JNum(w.rotation),
          position |-> Rect_to_json(w.position), type_name |-> JStr(w.type_name),
          frame_index |-> JNum(w.frame_index),
          num_widget_index |-> JNum(w.num_widget_index), num_widget |-> JNum(w.num_widget),
          tag1 |-> JOpt("str", w.tag1), tag2 |-> JOpt("str", w.tag2)])

SaveableWidget_to_json(w) ==
    IF w.kind = "TextWidget"
    THEN JObj([TextWidget |-> TextWidget_to_json(w)])
    ELSE JObj([ImageWidget |-> ImageWidget_to_json(w)])

\* mutant: rotate_degree is written as None
to_json_unrotated(self) ==
    JObj([width |-> JNum(self.width), height |-> JNum(self.height),
          model |-> JStr(self.model), fps |-> JNum(self.fps),
          device_address |-> JOpt("str", self.device_address),
          widgets |-> JArr([i \in 1..Len(self.widgets) |->
                               SaveableWidget_to_json(self.widgets[i])]),
          font |-> JOpt("str", IF self.font_name = BuiltinFontName THEN None ELSE self.font),
          font_name |-> JStr(self.font_name),
          rotate_degree |-> JNull,
          device_ip |-> JOpt("str", self.device_ip)])

\* ScreenRender::to_json / to_savable + saveable_to_compressed_json: the
\* JSON text of the SaveableScreen (the lz4 frame around it is undone by
\* decompress_size_prepended before any loader sees it)
to_json(self) ==
    JObj([width |-> JNum(self.width), height |-> JNum(self.height),
          model |-> JStr(self.model), fps |-> JNum(self.fps),
          device_address |-> JOpt("str", self.device_address),
          widgets |-> JArr([i \in 1..Len(self.widgets) |->
                               SaveableWidget_to_json(self.widgets[i])]),
          font |-> JOpt("str", IF self.font_name = BuiltinFontName THEN None ELSE self.font),
          font_name |-> JStr(self.font_name),
          rotate_degree |-> JOpt("num", Some(self.rotate_degree)),
          device_ip |-> JOpt("str", self.device_ip)])

\* derive(Deserialize): the fields that are not Option must be present and
\* of their type, a skipped field gets its default
ValidRect(j) ==
    /\ HasFields(j, {"left", "top", "right", "bottom"})
    /\ \A f \in {"left", "top", "right", "bottom"} : Is(j[2][f], {"num"})

Rect_from_json(j) ==
    [left |-> j[2].left[2], top |-> j[2].top[2],
     right |-> j[2].right[2], bottom |-> j[2].bottom[2]]

ValidTextWidget(j) ==
    /\ HasFields(j, {"id", "text", "type_name", "position", "num_widget_index",
                     "num_widget", "tag1", "tag2"})
    /\ \A f \in {"id", "text", "type_name", "tag1", "tag2"} : Is(j[2][f], {"str"})
    /\ \A f \in {"num_widget_index", "num_widget"} : Is(j[2][f], {"num"})
    /\ ValidRect(j[2].position)
    /\ Is(Field(j[2], "custom_script"), {"null", "str"})

TextWidget_from_json(j) ==
    [kind |-> "TextWidget", id |-> j[2].id[2], text |-> j[2].text[2],
     type_name |-> j[2].type_name[2], position |-> Rect_from_json(j[2].position),
     num_widget_index |-> j[2].num_widget_index[2], num_widget |-> j[2].num_widget[2],
     tag1 |-> j[2].tag1[2], tag2 |-> j[2].tag2[2],
     custom_script |-> OptOf(Field(j[2], "custom_script")),
     custom_script_data |-> CustomScriptStatus_default]

ValidImageWidget(j) ==
    /\ HasFields(j, {"id", "rotation", "position", "type_name", "frame_index",
                     "num_widget_index", "num_widget"})
    /\ \A f \in {"id", "type_name"} : Is(j[2][f], {"str"})
    /\ \A f \in {"rotation", "frame_index", "num_widget_index", "num_widget"} :
          Is(j[2][f], {"num"})
    /\ ValidRect(j[2].position)
    /\ Is(Field(j[2], "tag1"), {"null", "str"}) /\ Is(Field(j[2], "tag2"), {"null", "str"})

ImageWidget_from_json(j) ==
    [kind |-> "ImageWidget", id |-> j[2].id[2], rotation |-> j[2].rotation[2],
     position |-> Rect_from_json(j[2].position), type_name |-> j[2].type_name[2],
     frame_index |-> j[2].frame_index[2],
     num_widget_index |-> j[2].num_widget_index[2], num_widget |-> j[2].num_widget[2],
     tag1 |-> OptOf(Field(j[2], "tag1")), tag2 |-> OptOf(Field(j[2], "tag2"))]

ValidSaveableWidget(j) ==
    /\ j[1] = "obj"
    /\ \/ DOMAIN j[2] = {"TextWidget"} /\ ValidTextWidget(j[2].TextWidget)
       \/ DOMAIN j[2] = {"ImageWidget"} /\ ValidImageWidget(j[2].ImageWidget)

SaveableWidget_from_json(j) ==
    IF DOMAIN j[2] = {"TextWidget"}
    THEN TextWidget_from_json(j[2].TextWidget)
    ELSE ImageWidget_from_json(j[2].ImageWidget)

ValidSaveableScreen(j) ==
    /\ HasFields(j, {"width", "height", "model", "fps", "widgets", "font_name"})
    /\ \A f \in {"width", "height", "fps"} : Is(j[2][f], {"num"})
    /\ \A f \in {"model", "font_name"} : Is(j[2][f], {"str"})
    /\ \A f \in {"device_address", "font", "device_ip"} : Is(Field(j[2], f), {"null", "str"})
    /\ Is(Field(j[2], "rotate_degree"), {"null", "num"})
    /\ j[2].widgets[1] = "arr"
    /\ \A i \in 1..Len(j[2].widgets[2]) : ValidSaveableWidget(j[2].widgets[2][i])

SaveableScreen_from_json(j) ==
    [width |-> j[2].width[2], height |-> j[2].height[2], model |-> j[2].model[2],
     fps |-> j[2].fps[2],
     device_address |-> OptOf(Field(j[2], "device_address")),
     widgets |-> [i \in 1..Len(j[2].widgets[2]) |->
                     SaveableWidget_from_json(j[2].widgets[2][i])],
     font |-> OptOf(Field(j[2], "font")), font_name |-> j[2].font_name[2],
     rotate_degree |-> OptOf(Field(j[2], "rotate_degree")),
     device_ip |-> OptOf(Field(j[2], "device_ip"))]

\* serde_json::from_str(&String::from_utf8(bytes)?)?: Some(SaveableScreen),
\* or None when the bytes are not UTF-8 or not JSON of this schema
parse_saveable(uncompressed) ==
    IF uncompressed.utf8 /\ uncompressed.format = "json" /\ ValidSaveableScreen(uncompressed.json)
    THEN Some(SaveableScreen_from_json(uncompressed.json)) ELSE None

\* ScreenRender::new
ScreenRender_new(model, width, height, font_file, font_name) ==
    [rotate_degree |-> 0,
     canvas |-> [width |-> width, height |-> height,
                 font |-> IF font_file = None THEN DEFAULT_FONT ELSE font_file[1]],
     width |-> width, height |-> height, model |-> model, font_name |-> font_name,
     font |-> font_file, widgets |-> <<>>, fps |-> 10,
     device_address |-> None, device_ip |-> None]

\* ScreenRender::set_font
set_font(self, font_file, font_name) ==
    LET font == Font_from_bytes(IF font_file = None THEN DEFAULT_FONT ELSE font_file[1])
    IN  IF font = None THEN [res |-> "Err", self |-> self]
        ELSE [res |-> "Ok",
              self |-> [self EXCEPT !.canvas = [width |-> self.width,
                                                height |-> self.height, font |-> font[1]],
                                    !.font = font_file, !.font_name = font_name]]

\* ScreenRender::new_from_file / new_from_file_v2
new_from_file_v2(uncompressed) ==
    LET parsed == parse_saveable(uncompressed)
    IN  IF parsed = None THEN [res |-> "Err", render |-> None]
        ELSE LET saveable == parsed[1]
                 r0 == ScreenRender_new(saveable.model, saveable.width, saveable.height,
                                        None, "")
                 f == IF saveable.font # None
                      THEN set_font(r0, saveable.font, saveable.font_name)
                      ELSE [res |-> "Ok", self |-> r0]
             IN  IF f.res = "Err" THEN [res |-> "Err", render |-> None]
                 ELSE [res |-> "Ok",
                       render |-> Some([f.self EXCEPT
                           !.fps = saveable.fps,
                           !.device_address = saveable.device_address,
                           !.device_ip = saveable.device_ip,
                           !.rotate_degree = IF saveable.rotate_degree = None THEN 0
                                             ELSE saveable.rotate_degree[1],
                           !.widgets = saveable.widgets])]

\* ScreenRender::load_from_file / load_from_file_v2: the assignments made
\* before set_font stay when set_font fails
load_from_file(self, uncompressed) ==
    LET parsed == parse_saveable(uncompressed)
    IN  IF parsed = None THEN [res |-> "Err", self |-> self]
        ELSE LET saveable == parsed[1]
                 s1 == [self EXCEPT
                           !.width = saveable.width, !.height = saveable.height,
                           !.fps = saveable.fps,
                           !.rotate_degree = IF saveable.rotate_degree = None THEN 0
                                             ELSE saveable.rotate_degree[1],
                           !.device_address = saveable.device_address,
                           !.device_ip = saveable.device_ip,
                           !.canvas = [width |-> saveable.width,
                                       height |-> saveable.height,
                                       font |-> self.canvas.font]]
                 f == IF saveable.font # None
                      THEN set_font(s1, saveable.font, saveable.font_name)
                      ELSE [res |-> "Ok", self |-> s1]
             IN  IF f.res = "Err" THEN [res |-> "Err", self |-> s1]
                 ELSE [res |-> "Ok", self |-> [f.self EXCEPT !.widgets = saveable.widgets]]

\* setup_monitor: the watch call a widget type leads to ("" for none)
WatchOf(type_name) ==
    CASE type_name \in {"memory", "memory_total", "memory_percent", "swap",
                        "swap_percent"} -> "watch_memory"
      [] type_name \in {"cpu", "cpu_usage"} -> "watch_cpu"
      [] type_name = "cpu_freq" -> "watch_cpu_clock_speed"
      [] type_name = "cpu_temp." -> "watch_cpu_temperatures"
      [] type_name \in {"cpu_cores_power", "gpu_cores_power", "cpu_package_power",
                        "gpu_package_power"} -> "watch_cpu_power"
      [] type_name = "cpu_fan" -> "watch_cpu_fan"
      [] type_name = "gpu_fan" -> "watch_gpu_fan"
      [] type_name = "gpu_clock" -> "watch_gpu_clock_speed"
      [] type_name \in {"gpu_load", "gpu_memory_load", "gpu_memory_total_mb",
                        "gpu_memory_total_gb"} -> "watch_gpu_load"
      [] type_name = "gpu_temp." -> "watch_gpu_temperatures"
      [] type_name = "num_process" -> "watch_process"
      [] type_name = "disk_usage" -> "watch_disk"
      [] type_name \in {"net_ip", "net_ip_info"} -> "watch_net_ip"
      [] type_name \in {"disk_read_speed", "disk_write_speed"} -> "watch_disk_speed"
      [] type_name \in {"received_speed", "transmitted_speed"} -> "watch_network_speed"
      [] OTHER -> ""

\* nmc::CITIES, the cities a weather widget's tag2 may name
CITIES == {"Beijing"}

\* widget.tag1.as_ref().unwrap_or(&String::new()).parse().unwrap_or(0)
ParseIndex(tag1) == IF tag1 = Some("1") THEN 1 ELSE IF tag1 = Some("2") THEN 2 ELSE 0

Last(S) == CHOOSE i \in S : \A j \in S : j <= i

\* setup_monitor: the watch flags it enables, the WebcamInfo and the city it
\* leaves in the store (the last widget of the kind wins)
setup_monitor(self) ==
    LET ws == self.widgets
        cams == {i \in 1..Len(ws) : ws[i].type_name = "webcam" /\ ws[i].kind = "ImageWidget"}
        cities == {i \in 1..Len(ws) : /\ ws[i].type_name = "weather"
                                      /\ ws[i].kind = "TextWidget"
                                      /\ ws[i].tag2 # ""
                                      /\ ws[i].tag2 \in CITIES}
    IN  [flags |-> {WatchOf(ws[i].type_name) : i \in 1..Len(ws)} \ {""},
         webcam_info |-> IF cams = {} THEN None
                         ELSE Some([width |-> self.width, height |-> self.height,
                                    index |-> ParseIndex(ws[Last(cams)].tag1),
                                    fps |-> self.fps]),
         watch_weather |-> IF cities = {} THEN None ELSE Some(ws[Last(cities)].tag2)]

\* the widgets of the sample documents
TextSample(id, type_name, tag2, script, data) ==
    [kind |-> "TextWidget", id |-> id, text |-> "text1", type_name |-> type_name,
     position |-> [left |-> 10, top |-> 20, right |-> 11, bottom |-> 21],
     num_widget_index |-> 0, num_widget |-> 1, tag1 |-> "", tag2 |-> tag2,
     custom_script |-> script, custom_script_data |-> data]

ImageSample(id, type_name, tag1) ==
    [kind |-> "ImageWidget", id |-> id, rotation |-> 90,
     position |-> [left |-> 0, top |-> 0, right |-> 50, bottom |-> 50],
     type_name |-> type_name, frame_index |-> 0,
     num_widget_index |-> 0, num_widget |-> 1, tag1 |-> tag1, tag2 |-> None]

SampleWidgets ==
    {TextSample("w1", "cpu_usage", "", None, CustomScriptStatus_default),
     TextSample("w2", "weather", "Beijing", None, CustomScriptStatus_default),
     TextSample("w3", "text", "", Some("echo hi"), [loading |-> TRUE, result |-> "hi"]),
     ImageSample("w4", "webcam", Some("1")),
     ImageSample("w5", "images", None)}

\* the longest widget list of a sample document
MaxWidgets == 2

SampleWidgetLists ==
    {ws \in UNION {[1..n -> SampleWidgets] : n \in 0..MaxWidgets} :
        \A i, j \in 1..Len(ws) : i # j => ws[i].id # ws[j].id}

\* size, rate, rotation, binding and font of the sample documents
SampleSettings ==
    {[width |-> 160, height |-> 128, fps |-> 10, rotate_degree |-> 0,
      device_address |-> None, device_ip |-> None, font |-> None, font_name |-> ""],
     [width |-> 320, height |-> 240, fps |-> 30, rotate_degree |-> 90,
      device_address |-> Some("1"), device_ip |-> None,
      font |-> Some("custom.ttf"), font_name |-> "Custom"],
     [width |-> 160, height |-> 128, fps |-> 12, rotate_degree |-> 270,
      device_address |-> None, device_ip |-> Some("10.0.0.1"),
      font |-> Some("fenghuang.ttf"), font_name |-> BuiltinFontName]}

\* a document as the editor holds it: built by ScreenRender::new, then edited
SampleDocument(s, ws) ==
    [set_font(ScreenRender_new("", s.width, s.height, None, ""),
              s.font, s.font_name).self
        EXCEPT !.fps = s.fps, !.rotate_degree = s.rotate_degree,
               !.device_address = s.device_address, !.device_ip = s.device_ip,
               !.widgets = ws]

SampleDocuments == {SampleDocument(s, ws) : s \in SampleSettings, ws \in SampleWidgetLists}

\* the decompressed content of a .screen file: current JSON, or bincode of
\* one of the two legacy schemas, or bytes that are no text at all
JsonFile(j, origin) ==
    [format |-> "json", utf8 |-> TRUE, schema |-> "current", json |-> j, origin |-> origin]

LegacyFile(schema, utf8) ==
    [format |-> "bincode", utf8 |-> utf8, schema |-> schema, json |-> JNull, origin |-> None]

\* files that were not saved by this run: legacy documents, damaged files, a
\* JSON document with a font that does not parse, one without the Option fields
ExternalFiles ==
    {LegacyFile("pre_fps", TRUE), LegacyFile("pre_fps", FALSE),
     LegacyFile("v10", TRUE), LegacyFile("v10", FALSE),
     [format |-> "bytes", utf8 |-> FALSE, schema |-> "", json |-> JNull, origin |-> None],
     JsonFile(JObj([width |-> JNum(160)]), None),
     JsonFile(JObj([width |-> JNum(320), height |-> JNum(240), model |-> JStr(""),
                    fps |-> JNum(30), widgets |-> JArr(<<>>),
                    font |-> JStr("not a font"), font_name |-> JStr("Broken"),
                    rotate_degree |-> JNum(90), device_ip |-> JStr("10.0.0.2")]), None),
     JsonFile(JObj([width |-> JNum(320), height |-> JNum(240), model |-> JStr(""),
                    fps |-> JNum(12), widgets |-> JArr(<<>>),
                    font_name |-> JStr("")]), None)}

NoLoad == [op |-> "none", res |-> "Ok", before |-> None, input |-> None,
           loaded |-> None]

\* setup_monitor as the store sees it: every watch call passes true, the
\* webcam and the city are set when a widget names them
watch(info, self) ==
    LET m == setup_monitor(self)
    IN  [fld \in DOMAIN info |->
            IF fld \in m.flags THEN TRUE
            ELSE IF fld = "webcam_info" THEN info[fld] \/ m.webcam_info # None
            ELSE IF fld = "watch_weather" /\ m.watch_weather # None THEN m.watch_weather
            ELSE info[fld]]

\* the document is written out (to_savable, saveable_to_compressed_json)
save_screen ==
    /\ mode \in {"document", "panel"}
    /\ file = None
    /\ file' = Some(JsonFile(to_json(screen), Some(screen)))
    /\ UNCHANGED <<screen, lastLoad, uuids, painted>>
    /\ UNCHANGED <<envVars, monVars, render, usbVars, paceVars, pureVars, wifiVars, editVars>>

\* the user picks a file this run did not save
pick_file ==
    /\ mode = "document"
    /\ file = None
    /\ \E f \in ExternalFiles : file' = Some(f)
    /\ UNCHANGED <<screen, lastLoad, uuids, painted>>
    /\ UNCHANGED <<envVars, monVars, render, usbVars, paceVars, pureVars, wifiVars, editVars>>

\* main.rs open_usb_screen: ScreenRender::new_from_file(&f)?
new_from_file ==
    /\ mode \in {"document", "panel"}
    /\ file # None
    /\ LET r == new_from_file_v2(file[1])
       IN  /\ screen' = IF r.res = "Ok" THEN r.render[1] ELSE screen
           /\ lastLoad' = [op |-> "new_from_file", res |-> r.res,
                           before |-> Some(screen), input |-> file,
                           loaded |-> r.render]
           \* render.setup_monitor()?
           /\ SYSTEM_INFO' = IF r.res = "Ok" THEN watch(SYSTEM_INFO, r.render[1])
                             ELSE SYSTEM_INFO
    /\ file' = None
    /\ UNCHANGED <<uuids, painted>>
    /\ UNCHANGED <<families, sysLock, collectors, text_widget, lastDraw>>
    /\ UNCHANGED <<envVars, render, usbVars, paceVars, pureVars, wifiVars, editVars>>

\* editor.rs load_screen_from_uncompressed: self.screen.load_from_file(file),
\* and on Ok on_change_fps with the loaded rate, then setup_monitor
load_screen_from_uncompressed ==
    /\ mode \in {"document", "panel"}
    /\ file # None
    /\ LET r == load_from_file(screen, file[1])
           after == IF r.res = "Ok"
                    THEN [r.self EXCEPT !.fps = fps_for(r.self.width, r.self.height, @)]
                    ELSE r.self
       IN  /\ screen' = after
           /\ lastLoad' = [op |-> "load_from_file", res |-> r.res,
                           before |-> Some(screen), input |-> file,
                           loaded |-> Some(r.self)]
           /\ SYSTEM_INFO' = IF r.res = "Ok" THEN watch(SYSTEM_INFO, after)
                             ELSE SYSTEM_INFO
    /\ file' = None
    /\ UNCHANGED <<uuids, painted>>
    /\ UNCHANGED <<families, sysLock, collectors, text_widget, lastDraw>>
    /\ UNCHANGED <<envVars, render, usbVars, paceVars, pureVars, wifiVars, editVars>>

(***************************************************************************)
(* widgets.rs: the custom command of a text widget                         *)
(***************************************************************************)
\* how many threads of execute_user_command a run follows
MaxCommands == 3
\* what the command prints; unwrap_or("脚本运行失败") when it cannot be run
CommandOutputs == {"up 3 hours", "up 4 hours", "script failed"}

\* spawned: the thread has not locked custom_script_data yet; running: it set
\* loading and runs the command
NoCommands == [spawned |-> 0, running |-> 0]
InFlight(c) == c.spawned + c.running

\* TextWidget::draw, lines 253-267: with a command and the lock taken, a
\* thread is spawned unless loading is set, and the text is the last result
draw_custom_script ==
    /\ mode = "script"
    /\ script_widget.custom_script # None /\ script_widget.custom_script[1] # ""
    \* try_lock fails only while a thread holds the lock
    /\ \E try_lock \in (IF InFlight(commands) > 0 THEN BOOLEAN ELSE {TRUE}) :
        LET data == script_widget.custom_script_data
            spawn == try_lock /\ ~data.loading
        IN  /\ spawn => InFlight(commands) < MaxCommands
            /\ commands' = IF spawn THEN [commands EXCEPT !.spawned = @ + 1] ELSE commands
            /\ script_widget' = IF try_lock THEN [script_widget EXCEPT !.text = data.result]
                                ELSE script_widget
    /\ UNCHANGED <<restVars, otherThanScript>>

\* execute_user_command, lines 220-230: the thread locks and sets loading
command_begin ==
    /\ mode = "script"
    /\ commands.spawned > 0
    /\ commands' = [spawned |-> commands.spawned - 1, running |-> commands.running + 1]
    /\ script_widget' = [script_widget EXCEPT !.custom_script_data.loading = TRUE]
    /\ UNCHANGED <<restVars, otherThanScript>>

\* execute_user_command, lines 232-245: the command ended, the thread locks,
\* clears loading and stores the result
command_end ==
    /\ mode = "script"
    /\ commands.running > 0
    /\ commands' = [commands EXCEPT !.running = @ - 1]
    /\ \E result \in CommandOutputs :
        script_widget' = [script_widget EXCEPT
                             !.custom_script_data = [loading |-> FALSE, result |-> result]]
    /\ UNCHANGED <<restVars, otherThanScript>>

(***************************************************************************)
(* usb_screen.rs find_usb_serial_device: the loop over the serial ports.   *)
(* A port is its name and what the system does when it is used: whether    *)
(* open succeeds, whether each write succeeds, and what each read returns  *)
(* (None: the read times out).                                             *)
(***************************************************************************)
\* for _ in 0..2: a port is asked ReadInfo at most twice
ProbeAttempts == 2

PortNames == {"/dev/ttyACM0", "/dev/ttyACM1"}
ScreenAnswer == Some(Identity(160, 128, "X", <<>>))
OtherAnswer == Some(<<"O", "K">>)
PortBehaviours ==
    {[open |-> FALSE, write_ok |-> <<TRUE, TRUE>>, answers |-> <<None, None>>],
     [open |-> TRUE, write_ok |-> <<TRUE, TRUE>>, answers |-> <<ScreenAnswer, None>>],
     [open |-> TRUE, write_ok |-> <<FALSE, TRUE>>, answers |-> <<None, ScreenAnswer>>],
     [open |-> TRUE, write_ok |-> <<TRUE, TRUE>>, answers |-> <<None, ScreenAnswer>>],
     [open |-> TRUE, write_ok |-> <<FALSE, FALSE>>, answers |-> <<None, None>>],
     [open |-> TRUE, write_ok |-> <<TRUE, TRUE>>, answers |-> <<OtherAnswer, OtherAnswer>>]}
Ports == {[port_name |-> n, io |-> b] : n \in PortNames, b \in PortBehaviours}
\* the ports enumerated: none, one or both, in either order
PortLists ==
    {<<>>} \cup {<<p>> : p \in Ports}
        \cup {pq \in Ports \X Ports : pq[1].port_name # pq[2].port_name}

\* the entries a caller may exclude: screens bound earlier, with the label
\* and the size they had then
BoundACM0 == SerialDev
BoundACM1 == [label |-> <<"USB", "/dev/ttyACM1">>, address |-> "/dev/ttyACM1",
              width |-> 240, height |-> 240]
ExcludeLists ==
    {<<>>, <<BoundACM0>>, <<BoundACM1>>, <<BoundACM0, BoundACM1>>, <<RawDev>>,
     <<RawDev, BoundACM1>>}

\* a lookup that finds no port in the list
excluded_never(exclude_ports, port_name) == None

\* the inner loop: the first entry whose address is the port's name
RECURSIVE excluded_entry(_, _)
excluded_entry(exclude_ports, port_name) ==
    IF exclude_ports = <<>> THEN None
    ELSE IF Head(exclude_ports).address = port_name THEN Some(Head(exclude_ports))
    ELSE excluded_entry(Tail(exclude_ports), port_name)

\* attempts i.. on an open port: write ReadInfo, read 16 bytes, parse
RECURSIVE ask_read_info(_, _, _)
ask_read_info(p, i, used) ==
    IF i > ProbeAttempts THEN [device |-> None, used |-> used, panic |-> FALSE]
    ELSE LET wrote == Append(used, <<"write", p.port_name>>)
             didread == Append(wrote, <<"read", p.port_name>>)
             found == IF p.io.answers[i] = None THEN NotReported
                      ELSE find_usb_serial_device(p.io.answers[i][1])
         IN  IF ~p.io.write_ok[i] THEN ask_read_info(p, i + 1, wrote)
             ELSE IF found.res = "panic"
                  THEN [device |-> None, used |-> didread, panic |-> TRUE]
             ELSE IF found.res = "ok"
                  THEN [device |-> Some([label |-> <<"USB", p.port_name>>,
                                         address |-> p.port_name,
                                         width |-> found.width,
                                         height |-> found.height]),
                        used |-> didread, panic |-> FALSE]
             ELSE ask_read_info(p, i + 1, didread)

\* the body of `for p in ports`, given the devices and the port use so far
RECURSIVE for_p_in_ports(_, _, _, _)
for_p_in_ports(ports, exclude_ports, found_devices, used) ==
    IF ports = <<>> THEN [res |-> "ok", devices |-> found_devices, used |-> used]
    ELSE LET p == Head(ports)
             excluded == excluded_entry(exclude_ports, p.port_name)
             opened == Append(used, <<"open", p.port_name>>)
             asked == ask_read_info(p, 1, opened)
         IN  IF excluded # None
             THEN for_p_in_ports(Tail(ports), exclude_ports,
                                 Append(found_devices, excluded[1]), used)
             ELSE IF ~p.io.open
             THEN for_p_in_ports(Tail(ports), exclude_ports, found_devices, opened)
             ELSE IF asked.panic
             THEN [res |-> "panic", devices |-> found_devices, used |-> asked.used]
             ELSE for_p_in_ports(Tail(ports), exclude_ports,
                                 IF asked.device = None THEN found_devices
                                 ELSE Append(found_devices, asked.device[1]),
                                 asked.used)

\* discovery over the enumerated ports with the caller's exclude list
find_serial_ports ==
    /\ mode = "probe"
    /\ \E ports \in PortLists, exclude_ports \in ExcludeLists :
         /\ probe_in' = [ports |-> ports, exclude_ports |-> exclude_ports]
         /\ probe_out' = Some(for_p_in_ports(ports, exclude_ports, <<>>, <<>>))
    /\ UNCHANGED <<restVars, otherThanProbe>>

\* the ports of the last discovery that the caller excluded
ExcludedPorts ==
    {i \in 1..Len(probe_in.ports) :
        \E k \in 1..Len(probe_in.exclude_ports) :
            probe_in.exclude_ports[k].address = probe_in.ports[i].port_name}
PortUsed(name) ==
    \E k \in 1..Len(probe_out[1].used) : probe_out[1].used[k][2] = name

\* C32: discovery never opens, writes or reads a port whose name is the
\* address of an entry of the exclude list, and reports that port with the
\* entry's label and resolution
C32_ExcludedPortsUntouched ==
    probe_out # None =>
        \A i \in ExcludedPorts :
            LET name == probe_in.ports[i].port_name
            IN  /\ ~PortUsed(name)
                /\ \E d \in 1..Len(probe_out[1].devices) :
                     \E k \in 1..Len(probe_in.exclude_ports) :
                        /\ probe_in.exclude_ports[k].address = name
                        /\ probe_out[1].devices[d] = probe_in.exclude_ports[k]

\* an excluded port that would have answered as a screen, next to a port
\* that was probed and found
C32_Witness ==
    /\ probe_out # None
    /\ \E i \in ExcludedPorts : probe_in.ports[i].io.answers[1] = ScreenAnswer
    /\ \E i \in 1..Len(probe_in.ports) :
          /\ i \notin ExcludedPorts
          /\ PortUsed(probe_in.ports[i].port_name)
    /\ Len(probe_out[1].devices) = 2

(***************************************************************************)
(* monitor.rs start_refresh_task: the weather part of the refresh loop.    *)
(* Times are milliseconds on a clock that does not run backwards; Boot     *)
(* stands for the time since the epoch at which the task starts.           *)
(***************************************************************************)
\* 1000 * 60 * 5 milliseconds
UPDATE_WEATHER_DELAY == 300000
Boot == 1000 * 60 * 60
\* the times that pass between two readings of the clock
Elapses == {1000, UPDATE_WEATHER_DELAY - 1000, UPDATE_WEATHER_DELAY,
            UPDATE_WEATHER_DELAY + 1}
\* readings of the clock followed
MaxTicks == 4
Cities == {[code |-> "54511"], [code |-> "58367"]}

\* a query that is due at the delay already
weather_due_at(current_time, last) == current_time - last >= UPDATE_WEATHER_DELAY

\* current_time - last_weather_time.1 > UPDATE_WEATHER_DELAY
weather_due(current_time, last) == current_time - last > UPDATE_WEATHER_DELAY

\* time passes between two iterations of the loop
weather_clock ==
    /\ mode = "weather"
    /\ weather_task.ticks < MaxTicks
    /\ \E d \in Elapses :
         weather_task' = [weather_task EXCEPT !.now = @ + d, !.ticks = @ + 1]
    /\ UNCHANGED <<restVars, otherThanWeather>>

\* monitor::watch_weather: a widget, or the caller, sets the watched city;
\* watched is the city watched last, changed whether its code has changed
\* since the last iteration that saw a city
watch_weather ==
    /\ mode = "weather"
    /\ \E w \in {None} \cup {Some(c) : c \in Cities} :
         weather_task' =
            [weather_task EXCEPT
                !.watch_weather = w,
                !.watched = IF w # None THEN w ELSE @,
                !.changed = \/ @
                            \/ /\ w # None
                               /\ weather_task.watched # None
                               /\ w[1].code # weather_task.watched[1].code]
    /\ UNCHANGED <<restVars, otherThanWeather>>

\* one iteration of the loop, the weather block: lastQuery records the query
\* it starts (when, for which city, when the one before started, and whether
\* the watched city had changed since the iteration before)
refresh_weather ==
    /\ mode = "weather"
    /\ LET current_time == weather_task.now
           watch_weather_data == weather_task.watch_weather
           stored == weather_task.last_weather_time
           last == IF /\ watch_weather_data # None
                      /\ stored[1] # None
                      /\ stored[1][1].code # watch_weather_data[1].code
                   THEN 0 ELSE stored[2]
           due == watch_weather_data # None /\ weather_due(current_time, last)
       IN  weather_task' =
              [weather_task EXCEPT
                  !.last_weather_time =
                      IF watch_weather_data = None THEN stored
                      ELSE <<watch_weather_data, IF due THEN current_time ELSE last>>,
                  !.changed = IF watch_weather_data = None THEN @ ELSE FALSE,
                  !.lastQuery =
                      IF due THEN Some([at |-> current_time,
                                        city |-> watch_weather_data,
                                        before |-> IF @ = None THEN None
                                                   ELSE Some(@[1].at),
                                        changed |-> weather_task.changed])
                      ELSE @]
    /\ UNCHANGED <<restVars, otherThanWeather>>

(***************************************************************************)
(* widgets.rs ImageWidget::draw. Frames are numbered from 0 as frame_index *)
(* counts them; a frame is named by its number.                            *)
(***************************************************************************)
\* frames of the images loaded
MaxFrames == 3
Frames(n) == [i \in 1..n |-> i - 1]
ImageColors == {None, Some(<<255, 0, 0, 255>>)}

\* the index used as it is stored
stored_index(frame_index, n) == frame_index

\* if self.frame_index >= frames.len() { self.frame_index = frames.len()-1 }
clamped_index(frame_index, n) == IF frame_index >= n THEN n - 1 ELSE frame_index

\* ImageWidget::draw: what is shown, the widget after, or a panic (len()-1
\* of no frames, an index beyond the frames)
ImageWidget_draw(self) ==
    LET n == Len(self.frames)
        idx == clamped_index(self.frame_index, n)
    IN  IF self.color # None
        THEN [res |-> "Ok", shown |-> <<"fill", self.color[1]>>, self |-> self]
        ELSE IF self.type_name = "webcam"
        THEN [res |-> "Ok", shown |-> <<"webcam">>, self |-> self]
        ELSE IF idx < 0 \/ idx >= n
        THEN [res |-> "panic", shown |-> <<>>, self |-> self]
        ELSE [res |-> "Ok", shown |-> <<"frame", self.frames[idx + 1]>>,
              self |-> [self EXCEPT !.frame_index = IF idx + 1 >= n THEN 0 ELSE idx + 1]]

\* a panic ends the process: nothing is drawn or edited after it
ImagePanicked == image_drawn # None /\ image_drawn[1].res = "panic"
IconPanicked == icon_widget.drawn # None /\ icon_widget.drawn[1].res = "panic"

\* a render tick draws the widget
draw_image ==
    /\ mode \in {"image", "render"}
    /\ ~ImagePanicked /\ ~IconPanicked
    /\ LET d == ImageWidget_draw(image_widget)
       IN  /\ image_widget' = d.self
           /\ image_drawn' = Some([res |-> d.res, shown |-> d.shown,
                                   before |-> image_widget,
                                   after_index |-> d.self.frame_index])
    /\ UNCHANGED <<restVars, otherThanImage>>

\* editor.rs on_new_image_ready: the image the user picked replaces the
\* frames; frame_index stays
on_new_image_ready ==
    /\ mode = "image"
    /\ ~ImagePanicked
    /\ \E n \in 1..MaxFrames : image_widget' = [image_widget EXCEPT !.frames = Frames(n)]
    /\ UNCHANGED <<restVars, otherThanImage, image_drawn>>

\* editor.rs on_update_widget_image_color: a colour, or none for an empty or
\* unreadable colour string
on_update_widget_image_color ==
    /\ mode = "image"
    /\ ~ImagePanicked
    /\ \E color \in ImageColors : image_widget' = [image_widget EXCEPT !.color = color]
    /\ UNCHANGED <<restVars, otherThanImage, image_drawn>>

\* a document is loaded: the widget is what serde reads from the file, and
\* has not been drawn
ImageWidget_deserialize ==
    /\ mode \in {"image", "render"}
    /\ ~ImagePanicked /\ ~IconPanicked
    /\ \E type_name \in {"images", "webcam"}, color \in ImageColors,
          frame_index \in 0..MaxFrames, n \in 0..MaxFrames :
         image_widget' = [type_name |-> type_name, color |-> color,
                          frame_index |-> frame_index, frames |-> Frames(n)]
    /\ image_drawn' = None
    /\ UNCHANGED <<restVars, otherThanImage>>

(***************************************************************************)
(* widgets.rs Rect and the editor operations that place a widget. i32      *)
(* division rounds towards zero.                                           *)
(***************************************************************************)
\* a / 2 on i32
half(a) == IF a >= 0 THEN a \div 2 ELSE -((-a) \div 2)

Rect_new(left, top, right, bottom) ==
    [left |-> left, top |-> top, right |-> right, bottom |-> bottom]
Rect_from(x, y, width, height) == Rect_new(x, y, x + width, y + height)
width(r) == r.right - r.left
height(r) == r.bottom - r.top
center(r) == <<r.left + half(width(r)), r.top + half(height(r))>>

\* Rect::set_center
set_center(r, center_x, center_y) ==
    LET w == half(r.right - r.left)
        h == half(r.bottom - r.top)
    IN  Rect_new(center_x - w, center_y - h, center_x + w, center_y + h)

\* Rect::set_size
set_size(r, w, h) ==
    LET center_x == half(r.left + r.right)
        center_y == half(r.top + r.bottom)
    IN  Rect_new(center_x - half(w), center_y - half(h),
                 center_x + half(w), center_y + half(h))

\* the widget new_with_text and ImageWidget::new build at (x, y)
Box_new(kind, x, y) ==
    [kind |-> kind, width |-> None, height |-> None,
     position |-> IF kind = "TextWidget" THEN Rect_new(x, y, x + 1, y + 1)
                  ELSE Rect_from(x - half(50), y - half(50), 50, 50)]

\* TextWidget::draw without alignment: the box takes the explicit size or
\* the measured extent of the text around its centre; an image keeps its rect
Box_draw(self, text_rect) ==
    IF self.kind = "TextWidget"
    THEN [self EXCEPT !.position =
             set_size(@, IF self.width = None THEN text_rect[1] ELSE self.width[1],
                         IF self.height = None THEN text_rect[2] ELSE self.height[1])]
    ELSE self

\* on_update_widget_position: the fields of the panel as parsed (None: not
\* a number); the size is applied to an image widget only
update_widget_position(self, x_str, y_str, width_str, height_str) ==
    LET x == IF x_str = None THEN center(self.position)[1] ELSE x_str[1]
        y == IF y_str = None THEN center(self.position)[2] ELSE y_str[1]
        nw0 == IF width_str = None THEN width(self.position) ELSE width_str[1]
        nh0 == IF height_str = None THEN height(self.position) ELSE height_str[1]
        nw1 == IF nw0 <= 0 \/ nw0 > 500 THEN width(self.position) ELSE nw0
        nh1 == IF nh0 < 0 \/ nh0 > 500 THEN height(self.position) ELSE nh0
        nw == IF nw1 <= 2 THEN 2 ELSE nw1
        nh == IF nh1 <= 2 THEN 2 ELSE nh1
        moved == set_center(self.position, x, y)
    IN  [self EXCEPT !.position = IF self.kind = "ImageWidget"
                                  THEN set_size(moved, nw, nh) ELSE moved]

\* editor.rs render: the rect of the highlight of the active widget (the
\* progress bar's explicit box is left out); set_size of the canvas
\* library is taken to be the one of widgets.rs
highlight(self) ==
    LET r0 == self.position
        r1 == IF width(r0) <= 1 THEN set_size(r0, 2, height(r0)) ELSE r0
    IN  IF height(r1) <= 1 THEN set_size(r1, width(r1), 2) ELSE r1

\* where a click lands, where a drag leads, what the panel fields hold, what
\* a text measures
ClickPoints == {<<2, 3>>, <<80, 64>>}
DragPoints == {<<-4, 10>>, <<33, 7>>}
PanelNumbers == {None, Some(-5), Some(0), Some(7), Some(501)}
TextExtents == {<<0, 14>>, <<15, 9>>, <<56, 14>>}
PropSizes == {Some(-5), Some(21)}
SavedRects == {Rect_from(10, 10, 51, 33), Rect_from(-6, 4, 40, 14)}
\* operations on the widget that are followed
MaxBoxOps == 4

NoBoxHistory == [inserted |-> <<0, 0>>, drawn |-> FALSE, moved |-> FALSE, ops |-> 0,
                 op |-> "none", before |-> Rect_new(0, 0, 0, 0)]
BoxStep(op) ==
    [box_hist EXCEPT !.ops = @ + 1, !.op = op,
                     !.before = IF box_widget = None THEN @ ELSE box_widget[1].position]

\* on_mouse_click with a widget type chosen: add_widget at the point clicked
box_add_widget ==
    /\ mode = "box"
    /\ box_hist.ops < MaxBoxOps
    /\ \E p \in ClickPoints, kind \in {"TextWidget", "ImageWidget"} :
         /\ box_widget' = Some(Box_new(kind, p[1], p[2]))
         /\ box_hist' = [BoxStep("add") EXCEPT !.inserted = p, !.drawn = FALSE,
                                                !.moved = FALSE]
    /\ UNCHANGED <<restVars, otherThanBox>>

\* clone_widget: a widget of the same type is added at the left top corner
\* of the active one and becomes the active one
box_clone_widget ==
    /\ mode = "box"
    /\ box_hist.ops < MaxBoxOps
    /\ box_widget # None
    /\ LET p == <<box_widget[1].position.left, box_widget[1].position.top>>
       IN  /\ box_widget' = Some(Box_new(box_widget[1].kind, p[1], p[2]))
           /\ box_hist' = [BoxStep("clone") EXCEPT !.inserted = p, !.drawn = FALSE,
                                                    !.moved = FALSE]
    /\ UNCHANGED <<restVars, otherThanBox>>

\* a document is opened and one of its widgets selected: the rect is the
\* one in the file
box_open_document ==
    /\ mode = "box"
    /\ box_hist.ops < MaxBoxOps
    /\ \E kind \in {"TextWidget", "ImageWidget"}, r \in SavedRects :
         /\ box_widget' = Some([Box_new(kind, 0, 0) EXCEPT !.position = r])
         /\ box_hist' = [BoxStep("open") EXCEPT !.inserted = center(r),
                                                 !.drawn = FALSE, !.moved = TRUE]
    /\ UNCHANGED <<restVars, otherThanBox>>

\* a render tick draws the widget; the text measures text_rect
box_draw ==
    /\ mode = "box"
    /\ box_hist.ops < MaxBoxOps
    /\ box_widget # None
    /\ \E text_rect \in TextExtents :
         box_widget' = Some(Box_draw(box_widget[1], text_rect))
    /\ box_hist' = [BoxStep("draw") EXCEPT !.drawn = TRUE]
    /\ UNCHANGED <<restVars, otherThanBox>>

\* on_mouse_move while dragging: set_center(x, y)
on_mouse_move ==
    /\ mode = "box"
    /\ box_hist.ops < MaxBoxOps
    /\ box_widget # None
    /\ \E p \in DragPoints :
         box_widget' = Some([box_widget[1] EXCEPT
                                !.position = set_center(@, p[1], p[2])])
    /\ box_hist' = [BoxStep("drag") EXCEPT !.moved = TRUE]
    /\ UNCHANGED <<restVars, otherThanBox>>

\* on_update_widget_position with what the panel fields hold
on_update_widget_position ==
    /\ mode = "box"
    /\ box_hist.ops < MaxBoxOps
    /\ box_widget # None
    /\ \E x_str \in {None, Some(40)}, y_str \in {None}, width_str \in PanelNumbers,
          height_str \in PanelNumbers :
         box_widget' = Some(update_widget_position(box_widget[1], x_str, y_str,
                                                   width_str, height_str))
    /\ box_hist' = [BoxStep("position") EXCEPT !.moved = TRUE]
    /\ UNCHANGED <<restVars, otherThanBox>>

\* on_update_widget_prop_size: the explicit size of a text widget
on_update_widget_prop_size ==
    /\ mode = "box"
    /\ box_hist.ops < MaxBoxOps
    /\ box_widget # None
    /\ \E w \in PropSizes, h \in PropSizes :
         box_widget' = Some(IF box_widget[1].kind = "TextWidget"
                            THEN [box_widget[1] EXCEPT !.width = w, !.height = h]
                            ELSE box_widget[1])
    /\ box_hist' = BoxStep("size")
    /\ UNCHANGED <<restVars, otherThanBox>>

(***************************************************************************)
(* widgets.rs TextWidget::draw of a weather widget with tag1 "6": the text *)
(* is the img field of the weather report and selects an entry of ICONS    *)
(***************************************************************************)
\* nmc.rs ICONS: images/0.png .. images/32.png
ICONS_len == 33

\* str::parse::<usize> of a short text: an optional '+', then digits only
parse_usize(s) ==
    LET body == IF s # <<>> /\ Head(s) = "+" THEN Tail(s) ELSE s
    IN  IF body = <<>> \/ \E i \in 1..Len(body) : ~IsDigit(body[i]) THEN None
        ELSE Some(digits_value(body, 0))

\* the img field of a report, and the texts a document or the editor gives
WeatherImgs == {<<"0">>, <<"7">>, <<"3", "2">>, <<"9", "9", "9", "9">>}
IconTexts == {<<>>, <<"N", "/", "A">>, <<"1">>, <<"3", "3">>}

\* TextWidget::draw: the text is replaced by the img of the report when
\* there is one, then ICONS[img_idx] is drawn
WeatherIcon_draw(self, weather_info) ==
    LET text == IF weather_info # None /\ self.text # weather_info[1]
                THEN weather_info[1] ELSE self.text
        img_idx == unwrap_or(parse_usize(text), 0)
    IN  [text |-> text,
         drawn |-> Some([img_idx |-> img_idx,
                         res |-> IF img_idx < ICONS_len THEN "Ok" ELSE "panic"])]

\* the refresh task stores a weather report
weather_published ==
    /\ mode = "render"
    /\ ~IconPanicked /\ ~ImagePanicked
    /\ \E img \in WeatherImgs : icon_weather' = Some(img)
    /\ UNCHANGED <<restVars, otherThanIcon, icon_widget>>

\* a document is opened, or the user edits the text of the widget
icon_text_given ==
    /\ mode = "render"
    /\ ~IconPanicked /\ ~ImagePanicked
    /\ \E text \in IconTexts : icon_widget' = [icon_widget EXCEPT !.text = text]
    /\ UNCHANGED <<restVars, otherThanIcon, icon_weather>>

\* a render tick draws the weather widget
draw_weather_icon ==
    /\ mode = "render"
    /\ ~IconPanicked /\ ~ImagePanicked
    /\ icon_widget' = WeatherIcon_draw(icon_widget, icon_weather)
    /\ UNCHANGED <<restVars, otherThanIcon, icon_weather>>

(***************************************************************************)
(* utils.rs resize_image and test_resize_image: the size an image is       *)
(* scaled to, computed in f32                                              *)
(***************************************************************************)
\* f32::round() as u32 of a value that is not negative: halves go up
f32_round_as_u32(a) ==
    IF a.m = 0 THEN 0
    ELSE IF a.e >= 0 THEN a.m * Pow2(a.e)
    ELSE IF -a.e >= 26 THEN 0
    ELSE LET d == Pow2(-a.e)
         IN  a.m \div d + (IF 2 * (a.m % d) >= d THEN 1 ELSE 0)

\* the next bits of a quotient below 2 by long division: <<quotient, rest>>
RECURSIVE quotient_bits(_, _, _, _)
quotient_bits(q, r, d, bits) ==
    IF bits = 0 THEN <<q, r>>
    ELSE IF 2 * r >= d THEN quotient_bits(2 * q + 1, 2 * r - d, d, bits - 1)
    ELSE quotient_bits(2 * q, 2 * r, d, bits - 1)

\* (n as f32) / (d as f32) for 0 < n, d < 2^12: the quotient to 24 bits,
\* rounded to nearest, ties to even
f32_ratio(n, d) ==
    LET u0 == BitLen(d) - BitLen(n)
        n0 == IF u0 >= 0 THEN n * Pow2(u0) ELSE n
        d1 == IF u0 >= 0 THEN d ELSE d * Pow2(-u0)
        u == IF n0 < d1 THEN u0 + 1 ELSE u0
        n1 == IF n0 < d1 THEN 2 * n0 ELSE n0
        qr == quotient_bits(1, n1 - d1, d1, 23)
        m == IF 2 * qr[2] > d1 \/ (2 * qr[2] = d1 /\ qr[1] % 2 = 1)
             THEN qr[1] + 1 ELSE qr[1]
    IN  IF m = Pow2(24) THEN [sign |-> 1, m |-> Pow2(23), e |-> -23 - u + 1]
        ELSE [sign |-> 1, m |-> m, e |-> -23 - u]

\* test_resize_image, and the size resize_image asks imageops::resize for
test_resize_image(image_width, image_height, max_width, max_height) ==
    LET scale_factor == IF image_width > image_height
                        THEN f32_ratio(max_width, image_width)
                        ELSE f32_ratio(max_height, image_height)
    IN  <<f32_round_as_u32(f32_mul(image_width, scale_factor)),
          f32_round_as_u32(f32_mul(image_height, scale_factor))>>

\* the sizes of the images picked and of the screens they are fitted to
ImageSides == {1, 50, 100, 190, 200, 333, 640, 1000}
MaxSizes == {<<160, 128>>, <<128, 160>>, <<320, 240>>, <<240, 240>>}

\* ImageData::load: an image of some size is fitted to the screen
resize_image ==
    /\ mode = "resize"
    /\ \E w \in ImageSides, h \in ImageSides, max_size \in MaxSizes :
         /\ resize_in' = [width |-> w, height |-> h, max_width |-> max_size[1],
                          max_height |-> max_size[2]]
         /\ resize_out' = Some(test_resize_image(w, h, max_size[1], max_size[2]))
    /\ UNCHANGED <<restVars, otherThanResize>>

(***************************************************************************)
(* editor.rs: the panel and the frame rate of the document being edited    *)
(***************************************************************************)
\* editor.rs 99-118: the panels offered
screens == <<[name |-> "ST7735", width |-> 160, height |-> 128],
             [name |-> "ST7735", width |-> 128, height |-> 128],
             [name |-> "ST7789", width |-> 320, height |-> 240],
             [name |-> "ST7789", width |-> 240, height |-> 240]>>

\* on_change_fps on the document being edited: self.fps, self.screen.fps,
\* setup_monitor
on_change_fps_document ==
    /\ mode = "panel"
    /\ \E f \in FpsChoices :
        screen' = [screen EXCEPT !.fps = fps_for(screen.width, screen.height, f)]
    /\ SYSTEM_INFO' = watch(SYSTEM_INFO, screen')
    /\ UNCHANGED <<file, lastLoad, uuids, painted>>
    /\ UNCHANGED <<families, sysLock, collectors, text_widget, lastDraw>>
    /\ UNCHANGED <<envVars, render, usbVars, paceVars, pureVars, wifiVars, editVars>>

\* on_change_screen: the size and the canvas of the chosen panel, the
\* widgets rescaled (here the list is empty), setup_monitor
on_change_screen ==
    /\ mode = "panel"
    /\ screen.widgets = <<>>
    /\ \E index \in 1..Len(screens) :
        screen' = [screen EXCEPT !.width = screens[index].width,
                                 !.height = screens[index].height,
                                 !.canvas = [@ EXCEPT !.width = screens[index].width,
                                                      !.height = screens[index].height]]
    /\ SYSTEM_INFO' = watch(SYSTEM_INFO, screen')
    /\ UNCHANGED <<file, lastLoad, uuids, painted>>
    /\ UNCHANGED <<families, sysLock, collectors, text_widget, lastDraw>>
    /\ UNCHANGED <<envVars, render, usbVars, paceVars, pureVars, wifiVars, editVars>>

(***************************************************************************)
(* screen.rs render, add_widget; editor.rs: the widget list                *)
(***************************************************************************)
\* Uuid::new_v4(): the n-th id drawn differs from all before it
Uuids == <<"u1", "u2", "u3", "u4", "u5", "u6">>
\* how many widgets a run creates
MaxCreated == 3
\* the lengths of the list at which the user still adds a widget
ListLens == {0, 1, 2}

\* format!("文本{text_index}")
DefaultTexts == <<"text1", "text2", "text3", "text4", "text5", "text6", "text7">>

\* the widget types the editor's palette offers here ("": nothing chosen)
PaletteTypes == {"", "cpu_usage", "webcam"}

\* TextWidget::new_with_text
TextWidget_new_with_text(id, x, y, type_name, text) ==
    [kind |-> "TextWidget", id |-> id, text |-> text, type_name |-> type_name,
     position |-> [left |-> x, top |-> y, right |-> x + 1, bottom |-> y + 1],
     num_widget_index |-> 0, num_widget |-> 1, tag1 |-> "", tag2 |-> "",
     custom_script |-> None, custom_script_data |-> CustomScriptStatus_default]

\* ImageWidget::new: the 50x50 default image centred on (x, y)
ImageWidget_new(id, x, y, type_name) ==
    [kind |-> "ImageWidget", id |-> id, rotation |-> 0,
     position |-> [left |-> x - 25, top |-> y - 25, right |-> x + 25, bottom |-> y + 25],
     type_name |-> type_name, frame_index |-> 0,
     num_widget_index |-> 0, num_widget |-> 1, tag1 |-> None, tag2 |-> None]

\* ScreenRender::add_widget: None for an empty type name, else the new
\* widget is pushed to the end of the list
ScreenRender_add_widget(ws, id, type_name, x, y) ==
    IF type_name = "" THEN ws
    ELSE IF type_name \in {"images", "webcam"}
    THEN Append(ws, ImageWidget_new(id, x, y, type_name))
    ELSE LET text_index == 1 + Cardinality({i \in 1..Len(ws) : ws[i].kind = "TextWidget"})
         IN  Append(ws, TextWidget_new_with_text(id, x, y, type_name,
                                                 DefaultTexts[text_index]))

\* Rect::offset
offset(r, dx, dy) ==
    [left |-> r.left + dx, top |-> r.top + dy,
     right |-> r.right + dx, bottom |-> r.bottom + dy]

\* Vec::swap, 1-based
swap(ws, a, b) ==
    [i \in 1..Len(ws) |-> IF i = a THEN ws[b] ELSE IF i = b THEN ws[a] ELSE ws[i]]

\* Vec::remove, 1-based
remove(ws, a) == SubSeq(ws, 1, a - 1) \o SubSeq(ws, a + 1, Len(ws))

\* monitor::cpu_usage
cpu_usage(lock, info) ==
    LET ctx == try_read_ctx(lock, info)
    IN  IF ctx = None THEN None ELSE Some(ctx[1].cpu_usage)

\* monitor::cpu_usage_percpu: the entry of the map, None without one
cpu_usage_percpu(lock, info, index) ==
    LET ctx == try_read_ctx(lock, info)
    IN  IF ctx = None THEN None
        ELSE IF index + 1 \in DOMAIN ctx[1].cpu_usage_percpu
        THEN Some(ctx[1].cpu_usage_percpu[index + 1])
        ELSE None

\* the branch a cpu_usage widget takes: the aggregate when num_widget is 1
cpu_usage_text(w, lock, info) ==
    IF w.num_widget = 1 THEN cpu_usage(lock, info)
    ELSE cpu_usage_percpu(lock, info, w.num_widget_index)

\* TextWidget::draw, the text it leaves in the widget: the result of the
\* custom script if there is one, else the metric of the type
TextWidget_drawn(w, lock, info, today) ==
    IF w.custom_script # None /\ w.custom_script[1] # ""
    THEN [w EXCEPT !.text = w.custom_script_data.result]
    ELSE IF w.type_name = "text" THEN w
    ELSE LET resolved == IF w.type_name = "cpu_usage" THEN cpu_usage_text(w, lock, info)
                         ELSE Resolve(w.type_name, lock, info, today).resolved
         IN  [w EXCEPT !.text = TextWidget_text(@, resolved)]

\* render, the index pass: set_index gets the count of earlier widgets of
\* the type, set_num_widget the value the map holds for the type at the end
\* of the pass, which is the index of the last widget of the type
index_pass(ws) ==
    [i \in 1..Len(ws) |->
        [ws[i] EXCEPT
            !.num_widget_index =
                Cardinality({j \in 1..(i - 1) : ws[j].type_name = ws[i].type_name}),
            !.num_widget =
                Cardinality({j \in 1..Len(ws) : ws[j].type_name = ws[i].type_name}) - 1]]

\* render, the draw pass: canvas.clear(BLACK), then widget.draw in list order
RECURSIVE draw_pass(_, _, _, _, _)
draw_pass(ws, canvas, lock, info, today) ==
    IF ws = <<>> THEN [widgets |-> <<>>, canvas |-> canvas]
    ELSE LET w == IF Head(ws).kind = "TextWidget"
                  THEN TextWidget_drawn(Head(ws), lock, info, today)
                  ELSE Head(ws)
             rest == draw_pass(Tail(ws), Append(canvas, w.id), lock, info, today)
         IN  [widgets |-> <<w>> \o rest.widgets, canvas |-> rest.canvas]

\* ScreenRender::render
ScreenRender_render ==
    /\ mode = "editing"
    /\ \E today \in Dates :
        LET r == draw_pass(index_pass(screen.widgets), <<>>, sysLock, SYSTEM_INFO, today)
        IN  /\ screen' = [screen EXCEPT !.widgets = r.widgets]
            /\ painted' = r.canvas
    /\ UNCHANGED <<file, lastLoad, uuids>>
    /\ UNCHANGED <<envVars, monVars, render, usbVars, paceVars, pureVars, wifiVars, editVars>>

\* what sysinfo measures: the aggregate usage and the usage of each core
CpuSamples == {[cpu_usage |-> "42.0%", percpu |-> <<"10.0%", "74.0%">>]}

\* start_refresh_task, the block of watch_cpu
refresh_cpu ==
    /\ mode = "editing"
    /\ sysLock = "free"
    /\ SYSTEM_INFO.watch_cpu
    /\ \E m \in CpuSamples :
        SYSTEM_INFO' = [SYSTEM_INFO EXCEPT !.cpu_usage = m.cpu_usage,
                                           !.cpu_usage_percpu = m.percpu]
    /\ UNCHANGED <<families, sysLock, collectors, text_widget, lastDraw>>
    /\ UNCHANGED <<envVars, docVars, render, usbVars, paceVars, pureVars, wifiVars, editVars>>

\* editor.rs add_widget: a click with the chosen type, then setup_monitor
add_widget ==
    /\ mode = "editing"
    /\ uuids < MaxCreated
    /\ Len(screen.widgets) \in ListLens
    /\ \E type_name \in PaletteTypes :
        LET ws == ScreenRender_add_widget(screen.widgets, Uuids[uuids + 1], type_name,
                                          10, 20)
            after == [screen EXCEPT !.widgets = ws]
        IN  /\ screen' = after
            /\ uuids' = IF type_name = "" THEN uuids ELSE uuids + 1
            /\ SYSTEM_INFO' = IF type_name = "" THEN SYSTEM_INFO
                              ELSE watch(SYSTEM_INFO, after)
    /\ UNCHANGED <<file, lastLoad, painted>>
    /\ UNCHANGED <<families, sysLock, collectors, text_widget, lastDraw>>
    /\ UNCHANGED <<envVars, render, usbVars, paceVars, pureVars, wifiVars, editVars>>

\* editor.rs clone_widget: add_widget of the same type, the new widget then
\* takes the fields of the original but its own id, moved by (5, 5)
clone_widget ==
    /\ mode = "editing"
    /\ uuids < MaxCreated
    /\ Len(screen.widgets) \in ListLens
    /\ \E widget_index \in 1..Len(screen.widgets) :
        LET w == screen.widgets[widget_index]
            copy == [w EXCEPT !.id = Uuids[uuids + 1],
                              !.position = offset(w.position, 5, 5)]
            after == [screen EXCEPT !.widgets = Append(screen.widgets, copy)]
        IN  /\ screen' = after
            /\ SYSTEM_INFO' = watch(SYSTEM_INFO, after)
    /\ uuids' = uuids + 1
    /\ UNCHANGED <<file, lastLoad, painted>>
    /\ UNCHANGED <<families, sysLock, collectors, text_widget, lastDraw>>
    /\ UNCHANGED <<envVars, render, usbVars, paceVars, pureVars, wifiVars, editVars>>

\* editor.rs delete_widget
delete_widget ==
    /\ mode = "editing"
    /\ \E widget_index \in 1..Len(screen.widgets) :
        screen' = [screen EXCEPT !.widgets = remove(@, widget_index)]
    /\ UNCHANGED <<file, lastLoad, uuids, painted>>
    /\ UNCHANGED <<envVars, monVars, render, usbVars, paceVars, pureVars, wifiVars, editVars>>

\* move_back_widget: towards the end of the list; the last one stays
move_back(ws, widget_index) ==
    IF widget_index >= Len(ws) THEN ws ELSE swap(ws, widget_index, widget_index + 1)

\* a move that overwrites the neighbour instead of swapping
move_over(ws, widget_index) ==
    IF widget_index = 1 \/ Len(ws) = 1 THEN ws
    ELSE [ws EXCEPT ![widget_index - 1] = ws[widget_index]]

\* move_up_widget: towards the head of the list; the first one stays
move_up(ws, widget_index) ==
    IF widget_index = 1 \/ Len(ws) = 1 THEN ws ELSE swap(ws, widget_index - 1, widget_index)

\* editor.rs move_back_widget
move_back_widget ==
    /\ mode = "editing"
    /\ \E widget_index \in 1..Len(screen.widgets) :
        screen' = [screen EXCEPT !.widgets = move_back(@, widget_index)]
    /\ UNCHANGED <<file, lastLoad, uuids, painted>>
    /\ UNCHANGED <<envVars, monVars, render, usbVars, paceVars, pureVars, wifiVars, editVars>>

\* editor.rs move_up_widget
move_up_widget ==
    /\ mode = "editing"
    /\ \E widget_index \in 1..Len(screen.widgets) :
        screen' = [screen EXCEPT !.widgets = move_up(@, widget_index)]
    /\ UNCHANGED <<file, lastLoad, uuids, painted>>
    /\ UNCHANGED <<envVars, monVars, render, usbVars, paceVars, pureVars, wifiVars, editVars>>

(***************************************************************************)
(* Pure: the header both backends build                                    *)
(***************************************************************************)
\* 16-bit values around the byte boundaries, and the panel sizes
U16Samples == {0, 1, 128, 160, 255, 256, 320, 65535}

BuildHeader ==
    /\ mode = "pure"
    /\ hdr_out = None
    /\ hdr_out' = Some([raw    |-> img_begin(hdr_in[1], hdr_in[2], hdr_in[3], hdr_in[4]),
                        serial |-> img_begin_serial(hdr_in[1], hdr_in[2], hdr_in[3], hdr_in[4]),
                        end    |-> img_end])
    /\ UNCHANGED <<envVars, docVars, monVars, render, usbVars, paceVars, hdr_in, wifiVars, editVars>>
    /\ UNCHANGED <<ident_in, ident_out, bar_in, bar_out, px_in, px_out, unitVars>>

(***************************************************************************)
(* Specifications                                                          *)
(***************************************************************************)
\* the state of each part right after construction
InitUsb ==
    /\ sent = None
    /\ sinceDispatch = -1
    /\ dispatchGap = None
    /\ last_draw_time = 0

InitIdentity ==
    /\ ident_in = [kind |-> "raw", width |-> 160, height |-> 128, sep |-> "X",
                   tail |-> <<>>]
    /\ ident_out = None

\* a text widget with a custom command that no draw has run yet
InitScript ==
    /\ script_widget = [custom_script |-> Some("uptime -p"), text |-> "",
                        custom_script_data |-> CustomScriptStatus_default]
    /\ commands = NoCommands

\* no discovery has run
InitProbe ==
    /\ probe_in = [ports |-> <<>>, exclude_ports |-> <<>>]
    /\ probe_out = None

\* the refresh task has just been started: nothing watched, (None, 0) stored
InitWeather ==
    weather_task = [now |-> Boot, ticks |-> 0, watch_weather |-> None,
                    last_weather_time |-> <<None, 0>>, watched |-> None,
                    changed |-> FALSE,
                    lastQuery |-> None]

\* ImageWidget::new(x, y, "images"): the default image, one frame
InitImage ==
    /\ image_widget = [type_name |-> "images", color |-> None, frame_index |-> 0,
                       frames |-> Frames(1)]
    /\ image_drawn = None

\* no widget has been added
InitBox ==
    /\ box_widget = None
    /\ box_hist = NoBoxHistory

\* a weather widget set to show the icon, before any report and any draw
InitIcon ==
    /\ icon_widget = [text |-> <<>>, drawn |-> None]
    /\ icon_weather = None

\* no image has been resized
InitResize ==
    /\ resize_in = [width |-> 1, height |-> 1, max_width |-> 1, max_height |-> 1]
    /\ resize_out = None

InitUnits ==
    /\ InitResize
    /\ InitIcon
    /\ InitBox
    /\ InitScript
    /\ InitProbe
    /\ InitWeather
    /\ InitImage

\* nothing has been drawn or converted yet
InitNumeric ==
    /\ bar_in = [type_name |-> "cpu_usage", tag1 |-> "0", text |-> <<>>, font_size |-> 20,
                 width |-> None, height |-> None, position |-> [left |-> 0, top |-> 0]]
    /\ bar_out = None
    /\ px_in = <<>>
    /\ px_out = None
    /\ InitUnits

InitPure ==
    /\ hdr_in = <<0, 0, 0, 0>>
    /\ hdr_out = None
    /\ InitIdentity
    /\ InitNumeric

InitWifi ==
    /\ chan = <<>>
    /\ status = set_status(None, "NotConnected")
    /\ socket = None
    /\ screen_ip = ""
    /\ display_config = None
    /\ connected = FALSE
    /\ reconnects = NoReconnects
    /\ lastWork = NoWork
    /\ hungUp = FALSE

InitEditor ==
    /\ SCREEN = None
    /\ ALL_SCREENS = <<>>
    /\ devices = <<>>
    /\ device_name = <<>>
    /\ pendingOpen = None
    /\ lastBind = NoBind
    /\ picked = None
    /\ last_frame_time = -1
    /\ pendingDraws = 0
    /\ drawBlocked = FALSE

\* SYSTEM_INFO as its Lazy builds it, no thread spawned, nothing drawn
InitSystemInfo ==
    /\ SYSTEM_INFO = SystemInfo_new
    /\ sysLock = "free"
    /\ collectors = [f \in Families |-> NoCollector]
    /\ lastDraw = NoDraw

InitMonitor ==
    /\ families = {}
    /\ text_widget = TextWidget_new("text")
    /\ InitSystemInfo

\* CanvasEditorContext::new: an empty 160x128 document, no file, no load
InitDocument ==
    /\ screen = ScreenRender_new("", 160, 128, None, "")
    /\ file = None
    /\ lastLoad = NoLoad
    /\ uuids = 0
    /\ painted = <<>>

\* ScreenRender::new in CanvasEditorContext::new: 160x128 at 10 fps
NewDocument == [width |-> 160, height |-> 128, rotate_degree |-> 0, fps |-> 10]

AllFaults == 0..Len(SerialOps)

\* main(): the headless frame loop on a document file
InitHeadless ==
    /\ mode = "headless"
    /\ ips = {}
    /\ faults = AllFaults
    /\ sizes = PayloadSizes
    /\ attached \in SUBSET Devices
    /\ render \in Documents
    /\ usb_screen = find_and_open_a_screen(attached)
    /\ InitDocument /\ InitMonitor /\ InitUsb /\ InitPure /\ InitWifi /\ InitEditor

\* main(): the editor, its render timer feeding the screen bound so far
InitRender ==
    /\ mode = "editor"
    /\ ips = {}
    /\ faults = AllFaults
    /\ sizes = PayloadSizes
    /\ attached = {RawDev}
    /\ render = NewDocument
    /\ usb_screen = None
    /\ InitDocument /\ InitMonitor /\ InitUsb /\ InitPure /\ InitWifi
    /\ \/ InitEditor
       \/ /\ SCREEN = Some(USBScreen(RawDev))
          /\ ALL_SCREENS = <<RawDev>>
          /\ devices = <<RawDev>>
          /\ device_name = DeviceName(RawDev)
          /\ pendingOpen = None
          /\ lastBind = NoBind
          /\ picked = None
          /\ last_frame_time = -1
          /\ pendingDraws = 0
          /\ drawBlocked = FALSE

Init == InitHeadless \/ InitRender

Next ==
    \/ Plug \/ Unplug \/ open_usb_screen
    \/ on_change_fps \/ render_screen \/ draw_image_to_usb_screen

Spec == Init /\ [][Next]_vars

\* the framing functions on their own
InitHeader ==
    /\ mode = "pure"
    /\ ips = {}
    /\ faults = {0}
    /\ sizes = {2 * 1024}
    /\ attached = {}
    /\ render = NewDocument
    /\ usb_screen = None
    /\ InitDocument /\ InitMonitor /\ InitUsb /\ InitWifi /\ InitEditor
    /\ hdr_in \in U16Samples \X U16Samples \X U16Samples \X U16Samples
    /\ hdr_out = None
    /\ InitIdentity
    /\ InitNumeric

NextHeader == BuildHeader

SpecHeader == InitHeader /\ [][NextHeader]_vars

\* the WiFi worker driven through send_message by any client
InitWorker ==
    /\ mode = "wifi"
    /\ ips = AllIps
    /\ faults = {0}
    /\ sizes = {2 * 1024}
    /\ attached = {}
    /\ render = NewDocument
    /\ usb_screen = None
    /\ InitDocument /\ InitMonitor /\ InitUsb /\ InitPure /\ InitWifi /\ InitEditor

NextWorker ==
    \/ send_message \/ reconnect_thread
    \/ worker_Connect \/ worker_Disconnect \/ worker_Image

SpecWorker == InitWorker /\ [][NextWorker]_vars

\* the editor after a discovery cycle found both screens: the user binds
\* USB screens and WiFi addresses while the render timer spawns draw tasks
InitBinding ==
    /\ mode = "editor"
    /\ ips = {"10.0.0.1"}
    /\ faults = {0}
    /\ sizes = {2 * 1024}
    /\ attached = Devices
    /\ render = [NewDocument EXCEPT !.fps = 30]
    /\ usb_screen = None
    /\ InitDocument /\ InitMonitor /\ InitUsb /\ InitPure /\ InitWifi
    /\ SCREEN = None
    /\ ALL_SCREENS = find_all_device(Devices)
    /\ devices = find_all_device(Devices)
    /\ device_name = DeviceName(RawDev)
    /\ pendingOpen = None
    /\ lastBind = NoBind
    /\ picked = None
    /\ last_frame_time = -1
    /\ pendingDraws = 0
    /\ drawBlocked = FALSE

NextBinding ==
    \/ on_change_device \/ on_update_device_ip
    \/ render_screen \/ draw_image_to_usb_screen \/ send_message_returns
    \/ reconnect_thread \/ worker_Connect \/ worker_Disconnect \/ worker_Image

SpecBinding == InitBinding /\ [][NextBinding]_vars

\* either entry of main() with screens plugged and unplugged at any time:
\* the headless loop looks for a screen while it has none, the editor's
\* 4 s timer lists the screens and connects one, the user may pick another
InitSelection ==
    /\ mode \in {"headless", "editor"}
    /\ ips = {}
    /\ faults = {0}
    /\ sizes = {2 * 1024}
    /\ attached \in SUBSET Devices
    /\ render = NewDocument
    /\ usb_screen = IF mode = "headless" THEN find_and_open_a_screen(attached)
                    ELSE None
    /\ InitDocument /\ InitMonitor /\ InitUsb /\ InitPure /\ InitWifi /\ InitEditor

NextSelection ==
    \/ Plug \/ Unplug \/ open_usb_screen
    \/ update_device_list \/ update_device_list_thread \/ on_change_device

SpecSelection == InitSelection /\ [][NextSelection]_vars

\* discovery on its own: a raw or a serial screen with any identity string
InitDiscovery ==
    /\ mode = "identity"
    /\ ips = {}
    /\ faults = {0}
    /\ sizes = {2 * 1024}
    /\ attached = {}
    /\ render = NewDocument
    /\ usb_screen = None
    /\ InitDocument /\ InitMonitor /\ InitUsb /\ InitWifi /\ InitEditor
    /\ hdr_in = <<0, 0, 0, 0>>
    /\ hdr_out = None
    /\ ident_in \in [kind : {"raw", "serial"}, width : IdentSizes, height : IdentSizes,
                     sep : IdentSeps, tail : IdentTails]
    /\ ident_out = None
    /\ InitNumeric

NextDiscovery == find_device

SpecDiscovery == InitDiscovery /\ [][NextDiscovery]_vars

\* the editor on an empty document: the user adds, clones, deletes and
\* reorders widgets, the render timer draws the list, the
\* the editor with a new document: rates, panels, saves and loads of what it saved
InitPanel ==
    /\ mode = "panel"
    /\ ips = {}
    /\ faults = {0}
    /\ sizes = {2 * 1024}
    /\ attached = {}
    /\ render = NewDocument
    /\ usb_screen = None
    /\ InitDocument /\ InitMonitor /\ InitUsb /\ InitPure /\ InitWifi /\ InitEditor

NextPanel ==
    \/ on_change_fps_document \/ on_change_screen
    \/ save_screen \/ new_from_file \/ load_screen_from_uncompressed

SpecPanel == InitPanel /\ [][NextPanel]_vars

\* a text widget with a custom command: render ticks and command threads
\* nothing is attached, bound, drawn or computed
InitIdle ==
    /\ ips = {}
    /\ faults = {0}
    /\ sizes = {2 * 1024}
    /\ attached = {}
    /\ render = NewDocument
    /\ usb_screen = None
    /\ InitDocument /\ InitMonitor /\ InitUsb /\ InitPure /\ InitWifi /\ InitEditor

InitCommands ==
    /\ mode = "script"
    /\ InitIdle

NextCommands == draw_custom_script \/ command_begin \/ command_end

SpecCommands == InitCommands /\ [][NextCommands]_vars

InitPorts ==
    /\ mode = "probe"
    /\ InitIdle

NextPorts ==
    \/ find_serial_ports

SpecPorts == InitPorts /\ [][NextPorts]_vars

InitForecast ==
    /\ mode = "weather"
    /\ InitIdle

NextForecast ==
    \/ weather_clock
    \/ watch_weather
    \/ refresh_weather

SpecForecast == InitForecast /\ [][NextForecast]_vars

InitAnimation ==
    /\ mode = "image"
    /\ InitIdle

NextAnimation ==
    \/ draw_image
    \/ on_new_image_ready
    \/ on_update_widget_image_color
    \/ ImageWidget_deserialize

SpecAnimation == InitAnimation /\ [][NextAnimation]_vars

InitPlacing ==
    /\ mode = "box"
    /\ InitIdle

NextPlacing ==
    \/ box_add_widget
    \/ box_clone_widget
    \/ box_open_document
    \/ box_draw
    \/ on_mouse_move
    \/ on_update_widget_position
    \/ on_update_widget_prop_size

SpecPlacing == InitPlacing /\ [][NextPlacing]_vars

\* render ticks over a document with a weather icon and an image
InitRendering ==
    /\ mode = "render"
    /\ InitIdle

NextRendering ==
    \/ weather_published
    \/ icon_text_given
    \/ draw_weather_icon
    \/ draw_image
    \/ ImageWidget_deserialize

SpecRendering == InitRendering /\ [][NextRendering]_vars

InitResizing ==
    /\ mode = "resize"
    /\ InitIdle

NextResizing ==
    \/ resize_image

SpecResizing == InitResizing /\ [][NextResizing]_vars

\* the progress bar on its own: a widget of any sampled size, tag and text
InitBar ==
    /\ mode = "bar"
    /\ ips = {}
    /\ faults = {0}
    /\ sizes = {2 * 1024}
    /\ attached = {}
    /\ render = NewDocument
    /\ usb_screen = None
    /\ InitDocument /\ InitMonitor /\ InitUsb /\ InitWifi /\ InitEditor
    /\ hdr_in = <<0, 0, 0, 0>>
    /\ hdr_out = None
    /\ InitIdentity
    /\ bar_in \in [type_name : BarTypes, tag1 : BarTags,
                   text : {PercentText(t, st) : t \in PercentTenths, st \in BarStyles}
                              \cup {<<>>, <<"N", "/", "A">>, <<"-", "5", ".", "0", "°", "C">>},
                   font_size : BarFontSizes, width : BarExtents, height : BarExtents,
                   position : {[left |-> 10, top |-> 30]}]
    /\ bar_out = None
    /\ px_in = <<>>
    /\ px_out = None
    /\ InitUnits

NextBar == draw_progress

SpecBar == InitBar /\ [][NextBar]_vars

\* the pixel conversion on its own: an image of one to three pixels
InitPixel ==
    /\ mode = "pixel"
    /\ ips = {}
    /\ faults = {0}
    /\ sizes = {2 * 1024}
    /\ attached = {}
    /\ render = NewDocument
    /\ usb_screen = None
    /\ InitDocument /\ InitMonitor /\ InitUsb /\ InitWifi /\ InitEditor
    /\ hdr_in = <<0, 0, 0, 0>>
    /\ hdr_out = None
    /\ InitIdentity
    /\ bar_in = [type_name |-> "cpu_usage", tag1 |-> "0", text |-> <<>>, font_size |-> 20,
                 width |-> None, height |-> None, position |-> [left |-> 0, top |-> 0]]
    /\ bar_out = None
    /\ px_in \in {p \o t : p \in FirstPixels, t \in ImageTail}
    /\ px_out = None
    /\ InitUnits

NextPixel == convert_image

SpecPixel == InitPixel /\ [][NextPixel]_vars

\* the editor's widget list: widgets are added, cloned, deleted, moved and
\* drawn while the refresh task publishes the cpu usage
InitEditing ==
    /\ mode = "editing"
    /\ ips = {}
    /\ faults = {0}
    /\ sizes = {2 * 1024}
    /\ attached = {}
    /\ render = NewDocument
    /\ usb_screen = None
    /\ InitDocument /\ InitMonitor /\ InitUsb /\ InitPure /\ InitWifi /\ InitEditor

NextEditing ==
    \/ add_widget \/ clone_widget \/ delete_widget
    \/ move_back_widget \/ move_up_widget
    \/ ScreenRender_render \/ refresh_cpu

SpecEditing == InitEditing /\ [][NextEditing]_vars

\* the telemetry store with all three families: clients switch the watch
\* flags, the refresh task spawns collectors, collectors poll and publish
InitCollectors ==
    /\ mode = "monitor"
    /\ ips = {}
    /\ faults = {0}
    /\ sizes = {2 * 1024}
    /\ attached = {}
    /\ render = NewDocument
    /\ usb_screen = None
    /\ InitDocument /\ InitUsb /\ InitPure /\ InitWifi /\ InitEditor
    /\ families = Families
    /\ text_widget = TextWidget_new("text")
    /\ InitSystemInfo

NextCollectors ==
    \/ set_watch \/ start_refresh_task \/ collector_poll \/ collector_write

SpecCollectors == InitCollectors /\ [][NextCollectors]_vars

\* a text widget of any type drawn while the disk and network collectors
\* publish into the store
InitTelemetry ==
    /\ mode = "monitor"
    /\ ips = {}
    /\ faults = {0}
    /\ sizes = {2 * 1024}
    /\ attached = {}
    /\ render = NewDocument
    /\ usb_screen = None
    /\ InitDocument /\ InitUsb /\ InitPure /\ InitWifi /\ InitEditor
    /\ families = {"disk_speed", "network_speed"}
    /\ \E type_name \in TypeNames : text_widget = TextWidget_new(type_name)
    /\ InitSystemInfo

NextTelemetry ==
    \/ set_watch \/ start_refresh_task \/ collector_poll \/ collector_write
    \/ TextWidget_draw

SpecTelemetry == InitTelemetry /\ [][NextTelemetry]_vars

\* documents are saved, files are picked, and both loaders read them
InitFiles ==
    /\ mode = "document"
    /\ ips = {}
    /\ faults = {0}
    /\ sizes = {2 * 1024}
    /\ attached = {}
    /\ render = NewDocument
    /\ usb_screen = None
    /\ InitMonitor /\ InitUsb /\ InitPure /\ InitWifi /\ InitEditor
    /\ screen \in SampleDocuments
    /\ file = None
    /\ lastLoad = NoLoad
    /\ uuids = 0
    /\ painted = <<>>

NextFiles ==
    \/ save_screen \/ pick_file \/ new_from_file \/ load_screen_from_uncompressed

SpecFiles == InitFiles /\ [][NextFiles]_vars

(***************************************************************************)
(* Properties                                                              *)
(***************************************************************************)
IsPrefix(a, b) == Len(a) <= Len(b) /\ SubSeq(b, 1, Len(a)) = a
IsWrite(op) == op # "flush"
WritesOf(wire) == SelectSeq(wire, IsWrite)
Fits(call) == call.img.width <= call.info.width /\ call.img.height <= call.info.height

\* C1: a frame whose compressed payload is larger than 28 KiB is rejected
\* with the TooLarge error before the header, the payload or the end magic
\* is written, and the caller gets that error.
C1_TooLargeRejected ==
    (sent # None /\ sent[1].img.size > 28 * 1024)
        => (sent[1].wire = <<>> /\ sent[1].res = "TooLarge")

\* C2: in the headless frame loop, a dispatch in which one of the USB
\* writes failed leaves the loop without a session (usb_screen is None).
C2_FailureTearsDown ==
    [][(mode = "headless" /\ sent' # sent /\ sent'[1].failed)
          => usb_screen' = None]_vars

C5_ThreeWritesInOrder ==
    sent # None =>
        LET w == sent[1].wire
            serial == UsbScreen_open(sent[1].info) = "USBSerial"
            nops == IF serial THEN 6 ELSE 3
        IN  /\ IsPrefix(WritesOf(w), <<"header", "payload", "end">>)
            /\ (Fits(sent[1]) /\ (sent[1].fail = 0 \/ sent[1].fail > nops))
                   => WritesOf(w) = <<"header", "payload", "end">>
            /\ (Fits(sent[1]) /\ sent[1].fail \in 1..nops) => Len(w) = sent[1].fail
            /\ serial => \A i \in 1..Len(w) - 1 : IsWrite(w[i]) <=> ~IsWrite(w[i + 1])
            /\ ~serial => \A i \in 1..Len(w) : IsWrite(w[i])

\* the payload write to the serial port failed: header, flush, payload
C5_Witness ==
    /\ sent # None
    /\ UsbScreen_open(sent[1].info) = "USBSerial"
    /\ sent[1].wire = <<"header", "flush", "payload">>

\* C6: both backends build the same 16-byte header: the frame-begin magic,
\* then width, height, x and y as big-endian 16-bit values; the closing
\* write is the 8-byte frame-end magic, which differs from the begin magic.
C6_HeaderLayout ==
    hdr_out # None =>
        LET h == hdr_out[1].raw
            U16At(i) == h[i] * 256 + h[i + 1]
        IN  /\ hdr_out[1].serial = h
            /\ Len(h) = 16
            /\ \A i \in 1..16 : h[i] \in 0..255
            /\ SubSeq(h, 1, 8) = <<105, 109, 97, 103, 101, 95, 97, 97>>
            /\ <<U16At(9), U16At(11), U16At(13), U16At(15)>> = hdr_in
            /\ hdr_out[1].end = <<105, 109, 97, 103, 101, 95, 98, 98>>
            /\ hdr_out[1].end # SubSeq(h, 1, 8)

\* a header built for a 160x128 frame at offset (255, 256)
C6_Witness == hdr_out # None /\ hdr_in = <<160, 128, 255, 256>>

\* C7: UsbScreen::draw_rgb_image writes nothing and returns Ok when the
\* image is wider or taller than the resolution the device declared.
C7_OversizeNotSent ==
    (sent # None /\ ~Fits(sent[1]))
        => (sent[1].wire = <<>> /\ sent[1].res = "Ok")

\* a 128x160 frame (the 160x128 document rotated) met the 160x128 screen
C7_Witness ==
    /\ sent # None
    /\ sent[1].img.width <= sent[1].info.width
    /\ sent[1].img.height > sent[1].info.height

\* C3: the command channel holds at most one message, and a frame producer
\* never waits for the worker: with the channel full its frame is dropped.
C3_ProducerNeverWaits == Len(chan) <= 1 /\ ~drawBlocked

\* C8: an open USB handle and an open WiFi websocket never exist together.
C8_OneSession == ~(IsUsb(SCREEN) /\ socket # None)

\* C9: after a Connect whose connection failed the status is ConnectFail
\* and no socket is held, and the worker goes on receiving: a Connect at
\* the head of the channel can always be processed.
C9_ConnectFailKeepsWorker ==
    /\ (lastWork.type = "Connect" /\ ~lastWork.linkOk)
           => (status.status = "ConnectFail" /\ socket = None)
    /\ (chan # <<>> /\ Head(chan).type = "Connect") => ENABLED worker_Connect

\* a Connect was processed and succeeded right after one that failed
C9_Witness ==
    /\ lastWork.type = "Connect"
    /\ lastWork.before = "ConnectFail"
    /\ lastWork.linkOk
    /\ socket # None

\* C10: when the write or the flush of an Image fails, the worker is marked
\* disconnected, holds no socket, reports Disconnected and has scheduled a
\* reconnect to the same ip.
C10_SendFailureDisconnects ==
    (lastWork.type = "Image" /\ lastWork.wrote /\ (~lastWork.ret1 \/ ~lastWork.ret2))
        => /\ ~connected
           /\ socket = None
           /\ status.status = "Disconnected"
           /\ reconnects[lastWork.ip] > 0

\* C11: after the worker processed Disconnect it holds no websocket, the
\* reported status is Disconnected and the cached display geometry is
\* cleared.
C11_DisconnectClears ==
    lastWork.type = "Disconnect"
        => /\ socket = None
           /\ status.status = "Disconnected"
           /\ display_config = None

\* C12: after the worker processed Connect(ip) its target is ip, a websocket
\* it holds is the one to ip, and the cached geometry is that of ip or
\* absent, never that of an earlier device.
C12_ConnectReplaces ==
    lastWork.type = "Connect"
        => /\ screen_ip = lastWork.ip
           /\ socket \in {None, Some(lastWork.ip)}
           /\ display_config \in {None, Some(lastWork.ip)}

\* C13: drawing never waits for the telemetry lock: a draw can be taken in
\* every state, and a draw made while a writer held the lock got no value
\* from an accessor that reads the store and left the widget's text as it
\* was.
C13_RenderNeverBlocks ==
    /\ ENABLED TextWidget_draw
    /\ (lastDraw.locked /\ lastDraw.type_name \in StoreTypes)
           => (lastDraw.got = None /\ text_widget.text = lastDraw.before)

\* a received-speed widget was drawn while a collector held the lock, and
\* kept the speed it showed before
C13_Witness ==
    /\ lastDraw.locked
    /\ lastDraw.type_name = "received_speed"
    /\ lastDraw.before = "1.5MB/s"
    /\ text_widget.text = "1.5MB/s"

\* C14: per family, no collector thread exists before the watch flag was
\* first enabled, at most one thread is ever spawned, and a spawned thread
\* never terminates.
C14_OneCollectorForever ==
    \A f \in Families :
        /\ collectors[f].spawned > 0 => collectors[f].watched
        /\ collectors[f].spawned <= 1
        /\ collectors[f].state # "ended"

\* C15: after a draw of a widget that has an accessor, the text is the
\* resolved value when there is one and it is not the sentinel "N/A", and
\* the text of before the draw otherwise.
C15_SentinelKeepsText ==
    lastDraw.type_name # "text" =>
        text_widget.text =
            IF lastDraw.resolved # None /\ lastDraw.resolved[1] # EMPTY_STRING
            THEN lastDraw.resolved[1] ELSE lastDraw.before

\* a temperature widget showing a value resolved to the sentinel and kept it
C15_Witness ==
    /\ lastDraw.type_name = "cpu_temp."
    /\ lastDraw.resolved = Some(EMPTY_STRING)
    /\ lastDraw.before = "0.0 C"
    /\ text_widget.text = "0.0 C"

\* what a widget keeps across a save: everything but the script's run state
Persisted(w) == [f \in DOMAIN w \ {"custom_script_data"} |-> w[f]]

SameDocument(a, b) ==
    /\ a.width = b.width /\ a.height = b.height
    /\ a.fps = b.fps /\ a.rotate_degree = b.rotate_degree
    /\ a.device_address = b.device_address /\ a.device_ip = b.device_ip
    /\ Len(a.widgets) = Len(b.widgets)
    /\ \A i \in 1..Len(a.widgets) : Persisted(a.widgets[i]) = Persisted(b.widgets[i])

\* C16: loading the bytes saved from a document D succeeds and gives a
\* document with D's width, height, fps, rotation, device binding and
\* widget list (same order, ids, types, rects, tags, parameters), on which
\* setup_monitor enables what it enables on D.
C16_SaveLoadRoundTrip ==
    (lastLoad.input # None /\ lastLoad.input[1].origin # None)
        => /\ lastLoad.res = "Ok"
           /\ SameDocument(lastLoad.loaded[1], lastLoad.input[1].origin[1])
           /\ setup_monitor(lastLoad.loaded[1])
                = setup_monitor(lastLoad.input[1].origin[1])

\* a rotated 320x240 document bound to a device, with a webcam and a weather
\* widget, was saved and read back by new_from_file
C16_Witness ==
    /\ lastLoad.op = "new_from_file"
    /\ lastLoad.input[1].origin # None
    /\ screen.rotate_degree = 90
    /\ screen.device_address = Some("1")
    /\ Len(screen.widgets) = 2
    /\ screen.widgets[1].type_name = "webcam"
    /\ screen.widgets[2].type_name = "weather"
    /\ setup_monitor(screen).webcam_info # None

\* C17: a document in either legacy bincode schema loads, and the fields the
\* schema lacks get fps 10, rotation 0, no device ip and no device address.
C17_LegacyLoads ==
    (lastLoad.input # None /\ lastLoad.input[1].format = "bincode")
        => /\ lastLoad.res = "Ok"
           /\ screen.fps = 10
           /\ screen.rotate_degree = 0
           /\ screen.device_ip = None
           /\ screen.device_address = None

\* C18: when load_from_file returns an error the ScreenRender is what it
\* was before the call.
C18_FailedLoadChangesNothing ==
    (lastLoad.op = "load_from_file" /\ lastLoad.res = "Err")
        => screen = lastLoad.before[1]


\* the bound USB screen is not in the list the timer read
BoundMissing(s, list) ==
    IsUsb(s) /\ \A i \in 1..Len(list) : list[i].label # s[1].info[1].label

C20_SizeFromIdentity ==
    ident_out # None =>
        /\ ident_out[1].res = "ok"
        /\ ident_out[1].width = ident_in.width
        /\ ident_out[1].height = ident_in.height

\* the widgets of the list that have the type of widget i
SameType(ws, i) == {j \in 1..Len(ws) : ws[j].type_name = ws[i].type_name}

\* C21: after a render pass every widget's rank is the number of widgets of
\* its type that precede it in the list, and its sibling count is the number
\* of widgets of its type in the list.
C21_RankAndSiblings ==
    [][ScreenRender_render =>
        \A i \in 1..Len(screen'.widgets) :
            /\ screen'.widgets[i].num_widget_index
                 = Cardinality({j \in SameType(screen'.widgets, i) : j < i})
            /\ screen'.widgets[i].num_widget
                 = Cardinality(SameType(screen'.widgets, i))]_vars

\* the cpu_usage widgets of the list that run no custom command
CpuUsageWidgets(ws) ==
    {i \in 1..Len(ws) : /\ ws[i].type_name = "cpu_usage"
                        /\ ws[i].kind = "TextWidget"
                        /\ ws[i].custom_script = None}

\* C22: with exactly one cpu_usage widget in the document and an aggregate
\* usage in the store that is not the sentinel, a render that reads the store
\* while no writer holds it sets the widget's text to the aggregate usage.
C22_SingleWidgetShowsAggregate ==
    [][(/\ ScreenRender_render
        /\ Cardinality(CpuUsageWidgets(screen.widgets)) = 1
        /\ Cardinality(SameType(screen.widgets,
                                CHOOSE i \in CpuUsageWidgets(screen.widgets) : TRUE)) = 1
        /\ SYSTEM_INFO.cpu_usage # EMPTY_STRING
        /\ sysLock = "free")
       => \A i \in CpuUsageWidgets(screen.widgets) :
              screen'.widgets[i].text = SYSTEM_INFO.cpu_usage]_vars

\* the ids of a widget list, in list order
IdsOf(ws) == [i \in 1..Len(ws) |-> ws[i].id]

\* b is a with two neighbours exchanged
NeighboursSwapped(a, b) ==
    \E i \in 1..(Len(a) - 1) :
        /\ b[i] = a[i + 1] /\ b[i + 1] = a[i]
        /\ \A j \in 1..Len(a) : j \notin {i, i + 1} => b[j] = a[j]

\* C23: whatever was added, cloned, deleted and moved, a render pass clears
\* the canvas and draws each widget of the list once, in list order; a move
\* up or down leaves the list as it is or exchanges two neighbours, leaves
\* it as it is at the end it moves towards, and no widget is ever twice in
\* the list.
C23_DrawnInListOrder ==
    /\ [][ScreenRender_render => painted' = IdsOf(screen.widgets)]_vars
    /\ [][(move_up_widget \/ move_back_widget) =>
            /\ Len(screen'.widgets) = Len(screen.widgets)
            /\ \/ screen'.widgets = screen.widgets
               \/ NeighboursSwapped(screen.widgets, screen'.widgets)]_vars
    /\ [](/\ \A i, j \in 1..Len(screen.widgets) :
                i # j => screen.widgets[i].id # screen.widgets[j].id
          /\ screen.widgets # <<>> =>
                /\ move_up(screen.widgets, 1) = screen.widgets
                /\ move_back(screen.widgets, Len(screen.widgets)) = screen.widgets)

\* three widgets were created, one was moved, and the canvas holds them in
\* the order of the list, which is no longer the order of creation
C23_Witness ==
    /\ Len(screen.widgets) = 3
    /\ painted = IdsOf(screen.widgets)
    /\ IdsOf(screen.widgets) = <<"u2", "u1", "u3">>

\* the boolean watch flags of the store
WatchFlags ==
    {"watch_memory", "watch_disk", "watch_cpu", "watch_cpu_clock_speed",
     "watch_cpu_temperatures", "watch_cpu_power", "watch_cpu_fan",
     "watch_gpu_clock_speed", "watch_gpu_temperatures", "watch_gpu_fan",
     "watch_gpu_load", "watch_process", "watch_net_ip", "watch_disk_speed",
     "watch_network_speed"}

\* C27: a metric family's watch flag is on exactly when a widget of the
\* current document needs the metric (for the webcam: a WebcamInfo is set
\* exactly when the document has a webcam widget).
C27_WatchedIffNeeded ==
    /\ \A fld \in WatchFlags :
          SYSTEM_INFO[fld] <=> fld \in setup_monitor(screen).flags
    /\ SYSTEM_INFO.webcam_info <=> setup_monitor(screen).webcam_info # None
\* the percentage parsed from the text of bar_in, and whether it is a whole number
BarPercent == percent_of(bar_in.text)
IsWhole(a) == a.m = 0 \/ (a.e <= 0 /\ -a.e <= 24 /\ a.m % Pow2(-a.e) = 0)
BarWidth == unwrap_or(bar_in.width, bar_in.font_size * 5)
BarHeight == unwrap_or(bar_in.height, bar_in.font_size)

\* C24: a progress bar with extent E (the width for tag1 "1", the height for
\* tag1 "2") and a parsed percentage p in 0..100 fills max(1, floor(E*p/100));
\* the horizontal bar starts at the left edge of the box and the bottom edge
\* of the vertical bar is top + height.
C24_FilledExtent ==
    (/\ bar_out # None
     /\ bar_out[1] # None
     /\ IsWhole(BarPercent)
     /\ f32_as_i32(BarPercent) \in 0..100) =>
        LET p == f32_as_i32(BarPercent)
            E == IF bar_in.tag1 = "1" THEN BarWidth ELSE BarHeight
            want == IF (E * p) \div 100 < 1 THEN 1 ELSE (E * p) \div 100
            rect == bar_out[1][1]
        IN  /\ bar_in.tag1 = "1" =>
                /\ rect.width = want
                /\ rect.left = bar_in.position.left
            /\ bar_in.tag1 = "2" =>
                /\ rect.height = want
                /\ rect.top + rect.height = bar_in.position.top + BarHeight

\* C25: every RGB888 pixel, encoded with from_rgb and decoded with red(),
\* green() and blue(), keeps each channel at or below the original and less
\* than one step away (r - r' in 0..7, g - g' in 0..3, b - b' in 0..7);
\* rgb888_to_rgb565_be emits two bytes per pixel, the high byte first.
C25_RoundTripWithinStep ==
    px_out # None =>
        LET n == Len(px_in) \div 3
            out == px_out[1]
        IN  /\ Len(out) = 2 * n
            /\ \A i \in 1..n :
                LET v == out[2 * i - 1] * 256 + out[2 * i]
                IN  /\ out[2 * i - 1] \in 0..255 /\ out[2 * i] \in 0..255
                    /\ px_in[3 * i - 2] - red(v) \in 0..7
                    /\ px_in[3 * i - 1] - green(v) \in 0..3
                    /\ px_in[3 * i] - blue(v) \in 0..7

\* two pixels with every channel off its step have been converted
C25_Witness ==
    /\ px_in = <<247, 255, 7, 255, 0, 128>>
    /\ px_out = Some(<<247, 224, 248, 16>>)

\* C26: whenever the panel of the document is larger than 160x128 (width
\* above 160 and height above 128) the frame rate is at most 12, after any
\* sequence of rate changes, panel changes and loads.
C26_LargePanelFpsCapped ==
    (screen.width > 160 /\ screen.height > 128) => screen.fps <= 12

\* C28: the status is Connected only while the worker holds a websocket; after
\* a Connect whose connection failed, handling Image messages never makes the
\* status Connected.
C28_ConnectedHoldsSocket == status.status = "Connected" => socket # None

\* C29: once the worker has handled a Disconnect and no client has sent a
\* Connect since, the worker holds no websocket: the Connect messages of the
\* threads spawned before the Disconnect do not open one.
C29_StaysDisconnected == hungUp => socket = None

\* C30: the periodic discovery never replaces a bound USB session whose
\* device is still in the discovered list: once the user has bound a device
\* with on_change_device, every later cycle leaves that session bound while
\* the device is listed, also when it is not the first entry.
C30_PickedSessionKept ==
    [][(/\ update_device_list_thread
        /\ picked # None
        /\ picked[1].later
        /\ SCREEN = Some(USBScreen(picked[1].dev))
        /\ ~BoundMissing(SCREEN, devices))
       => SCREEN' = SCREEN]_vars

\* C31: for a text widget with a custom command at most one execution of
\* the command runs at any time: draw starts one only when the one before has
\* finished, under every interleaving of render ticks and command threads.
C31_OneCommandAtATime == commands.running <= 1

DocumentState(r) ==
    [f \in {"width", "height", "model", "fps", "rotate_degree", "device_address",
            "device_ip", "font", "font_name", "widgets"} |-> r[f]]

\* C34: load_from_file on a ScreenRender and new_from_file on the same valid
\* bytes end in the same document state, whatever the ScreenRender held
\* before: width, height, model, fps, rotation, device binding, font, font
\* name and widgets.
C34_LoadAsNew ==
    (/\ lastLoad.op = "load_from_file"
     /\ lastLoad.res = "Ok"
     /\ new_from_file_v2(lastLoad.input[1]).res = "Ok")
        => DocumentState(lastLoad.loaded[1])
             = DocumentState(new_from_file_v2(lastLoad.input[1]).render[1])

\* the last draw was of a widget with at least one frame
DrewFrames == image_drawn # None /\ Len(image_drawn[1].before.frames) >= 1

\* C35: for an image widget with n >= 1 frames and no colour override, each
\* draw shows frame number frame_index and then advances frame_index by one
\* modulo n; with a colour override draw leaves frame_index unchanged.
C35_ShowsFrameIndex ==
    DrewFrames =>
        LET b == image_drawn[1].before
            n == Len(b.frames)
        IN  /\ image_drawn[1].res = "Ok"
            /\ IF b.color = None
               THEN /\ image_drawn[1].shown = <<"frame", b.frame_index>>
                    /\ image_drawn[1].after_index = (b.frame_index + 1) % n
                    /\ image_drawn[1].after_index \in 0..(n - 1)
               ELSE image_drawn[1].after_index = b.frame_index

\* C35 as the code has it: a widget of type images with n >= 1 frames and no
\* colour override shows frame min(frame_index, n - 1) and leaves
\* frame_index at that number plus one modulo n, so 0 <= frame_index < n
\* after the draw; with a colour override, or for a webcam widget, draw
\* shows no frame and leaves frame_index unchanged.
C35_ShowsClampedFrame ==
    DrewFrames =>
        LET b == image_drawn[1].before
            n == Len(b.frames)
            k == IF b.frame_index < n - 1 THEN b.frame_index ELSE n - 1
        IN  /\ image_drawn[1].res = "Ok"
            /\ IF b.color = None /\ b.type_name = "images"
               THEN /\ image_drawn[1].shown = <<"frame", k>>
                    /\ image_drawn[1].after_index = (k + 1) % n
                    /\ image_drawn[1].after_index \in 0..(n - 1)
               ELSE /\ image_drawn[1].shown[1] # "frame"
                    /\ image_drawn[1].after_index = b.frame_index

\* a draw of a two-frame image whose index was left beyond its frames when
\* it replaced a three-frame image
C35_Witness ==
    /\ DrewFrames
    /\ image_drawn[1].before.color = None
    /\ image_drawn[1].before.type_name = "images"
    /\ Len(image_drawn[1].before.frames) = 2
    /\ image_drawn[1].before.frame_index = 2
    /\ image_drawn[1].shown = <<"frame", 1>>
    /\ image_widget.frame_index = 0

C37_AtLeastTwoPixels ==
    (box_widget # None /\ box_hist.op = "position")
        => /\ width(box_widget[1].position) >= 2
           /\ height(box_widget[1].position) >= 2
           /\ width(highlight(box_widget[1])) >= 2
           /\ height(highlight(box_widget[1])) >= 2

\* C38: a drag step (Rect::set_center) leaves the width and the height of
\* the widget's rect as they were, for every rect and every target.
C38_DragKeepsSize ==
    (box_widget # None /\ box_hist.op = "drag")
        => /\ width(box_widget[1].position) = width(box_hist.before)
           /\ height(box_widget[1].position) = height(box_hist.before)

\* C39: no draw of a render pass panics, for every widget state reached by
\* opening documents and editing: the index parsed from the text of the
\* weather icon is below the 33 entries of the atlas, and an image widget
\* has a frame at the index it draws.
C39_RenderNeverPanics ==
    /\ icon_widget.drawn # None => icon_widget.drawn[1].img_idx < 33
    /\ image_drawn # None => image_drawn[1].res = "Ok"

\* C40: the size resize_image and test_resize_image return never exceeds
\* the maximum given: the width is at most max_width and the height at most
\* max_height.
C40_WithinMaximum ==
    resize_out # None =>
        /\ resize_out[1][1] <= resize_in.max_width
        /\ resize_out[1][2] <= resize_in.max_height

====
